---- MODULE Spec2Model ----
(***************************************************************************)
(* Video source resolution and playback session of the movie player:       *)
(* VideoFetcher (owner of videoUrl and of the expiration check) renders    *)
(* one VideoPlayer keyed by videoUrl; the player refreshes through the     *)
(* fetcher's refreshVideoUrl and extracts direct streams through the       *)
(* video service.                                                          *)
(*                                                                         *)
(* A JavaScript string is a sequence of one-character strings.             *)
(***************************************************************************)
EXTENDS Integers, Sequences, FiniteSets, Bags, TLC

\* JavaScript null where a string is expected (a sequence that is no string)
NULL == <<"null">>

\* JavaScript null where an object is expected
NullObject == [null |-> TRUE]

\* the rejection of a promise (a sequence that is no string)
REJECTED == <<"rejected">>

----------------------------------------------------------------------------
(* String primitives of the JavaScript runtime used by the sources *)

\* the only element of S: Only({F(x) : x \in {e}}) is F(e), with e
\* evaluated once
Only(S) == CHOOSE x \in S : TRUE

\* the characters of s
Chars(s) == Only({{t[i] : i \in 1..Len(t)} : t \in {s}})

\* the positions of s at which p occurs
Matches(s, p) ==
  Only({{i \in 1..(Len(t) - Len(q) + 1) :
           t[i] = q[1] /\ SubSeq(t, i, i + Len(q) - 1) = q} :
          t \in {s}, q \in {p}})

StartsWith(s, p) ==
  Len(p) <= Len(s) /\ SubSeq(s, 1, Len(p)) = p

EndsWith(s, p) ==
  Len(p) <= Len(s) /\ SubSeq(s, Len(s) - Len(p) + 1, Len(s)) = p

\* String.prototype.indexOf, 1-based; 0 when p does not occur
IndexOf(s, p) ==
  IF p = << >> THEN 1
  ELSE Only({IF I = {} THEN 0 ELSE CHOOSE i \in I : \A j \in I : i <= j :
               I \in {Matches(s, p)}})

LastIndexOf(s, p) ==
  Only({IF I = {} THEN 0 ELSE CHOOSE i \in I : \A j \in I : i >= j :
          I \in {Matches(s, p)}})

Includes(s, p) == IndexOf(s, p) # 0

\* s.split(sep)[0]
SplitFirst(s, sep) ==
  Only({IF at = 0 THEN s ELSE SubSeq(s, 1, at - 1) : at \in {IndexOf(s, sep)}})

\* s.split(sep)[1], for s that includes sep
SplitSecond(s, sep) ==
  Only({SplitFirst(rest, sep) :
          rest \in {SubSeq(s, IndexOf(s, sep) + Len(sep), Len(s))}})

UpperLetters == <<"A","B","C","D","E","F","G","H","I","J","K","L","M","N","O","P","Q","R","S","T","U","V","W","X",
      "Y","Z">>

LowerLetters == <<"a","b","c","d","e","f","g","h","i","j","k","l","m","n","o","p","q","r","s","t","u","v","w","x",
      "y","z">>

Digits == <<"0","1","2","3","4","5","6","7","8","9">>

DigitSet == {Digits[i] : i \in 1..10}

UpperSet == {UpperLetters[i] : i \in 1..26}

LowerSet == {LowerLetters[i] : i \in 1..26}

IsDigit(c) == c \in DigitSet

IsLetter(c) == c \in UpperSet \/ c \in LowerSet

LowerChar(c) ==
  IF c \in UpperSet
  THEN LowerLetters[CHOOSE i \in 1..26 : UpperLetters[i] = c]
  ELSE c

ToLowerCase(s) == Only({[i \in 1..Len(t) |-> LowerChar(t[i])] : t \in {s}})

\* white space as String.prototype.trim sees it (space and tab are modelled)
IsSpace(c) == c \in {" ", "\t"}

\* !s.trim()
IsBlank(s) == \A c \in Chars(s) : IsSpace(c)

Trim(s) ==
  Only({IF I = {} THEN << >>
        ELSE SubSeq(s, CHOOSE i \in I : \A j \in I : i <= j,
                       CHOOSE i \in I : \A j \in I : i >= j) :
          I \in {Only({{i \in 1..Len(t) : ~IsSpace(t[i])} : t \in {s}})}})

\* `${n}` of a non-negative integer
RECURSIVE ToStr(_)
ToStr(n) ==
  IF n < 10 THEN <<Digits[n + 1]>>
  ELSE ToStr(n \div 10) \o <<Digits[(n % 10) + 1]>>

\* s.split(sep) for a one-character separator
SplitBy(s, sep) ==
  Only({Only({[k \in 1..(Len(at) + 1) |->
                 SubSeq(t, IF k = 1 THEN 1 ELSE at[k - 1] + 1,
                           IF k = Len(at) + 1 THEN Len(t) ELSE at[k] - 1)] :
                at \in {SelectSeq([i \in 1..Len(t) |-> i], LAMBDA i : t[i] = sep)}}) :
          t \in {s}})

\* parts.join(sep) preceded by sep
RECURSIVE JoinWith(_, _)
JoinWith(parts, sep) ==
  IF parts = << >> THEN << >>
  ELSE <<sep>> \o Head(parts) \o JoinWith(Tail(parts), sep)

\* !isNaN(Number(s)): the StringNumericLiteral forms modelled are the empty
\* or blank string and an optionally signed decimal with an optional
\* fraction; hexadecimal, exponent and Infinity forms are not modelled.
IsNumeric(s) ==
  \E t \in {Trim(s)} :
    \E u \in {IF t # << >> /\ t[1] \in {"+", "-"} THEN Tail(t) ELSE t} :
      \/ t = << >>
      \/ /\ u # << >>
         /\ Chars(u) \subseteq DigitSet \cup {"."}
         /\ Cardinality(Matches(u, <<".">>)) <= 1
         /\ Chars(u) \cap DigitSet # {}

----------------------------------------------------------------------------
(* new URL(url): the WHATWG parser for absolute URLs, without percent-     *)
(* encoding, IPv6 and IDNA; none of the modelled inputs needs them.        *)

SpecialSchemes == {<<"h","t","t","p">>, <<"h","t","t","p","s">>, <<"f","t","p">>, <<"w","s">>, <<"w","s","s">>}

IsSchemeChar(c) == IsLetter(c) \/ IsDigit(c) \/ c \in {"+", "-", "."}

ForbiddenHostChars == {" ", "\t", "#", "%", "/", ":", "<", ">", "?", "@", "[", "\\", "]", "^", "|"}

\* index of the first character of s that is in set C, or Len(s) + 1
FirstOf(s, C) ==
  Only({IF I = {} THEN Len(s) + 1 ELSE CHOOSE i \in I : \A j \in I : i <= j :
          I \in {Only({{i \in 1..Len(t) : t[i] \in C} : t \in {s}})}})

\* removal of "." and ".." segments while the path is parsed
RECURSIVE DotSegments(_, _)
DotSegments(segs, acc) ==
  IF segs = << >> THEN acc
  ELSE LET seg == Head(segs)
           last == Len(segs) = 1
       IN  IF seg = <<".",".">>
           THEN DotSegments(Tail(segs),
                  (IF acc = << >> THEN acc ELSE SubSeq(acc, 1, Len(acc) - 1))
                  \o (IF last THEN << << >> >> ELSE << >>))
           ELSE IF seg = <<".">>
           THEN DotSegments(Tail(segs), acc \o (IF last THEN << << >> >> ELSE << >>))
           ELSE DotSegments(Tail(segs), Append(acc, seg))

\* path state: the pathname of the path rawPath
PathnameOf(special, hasAuthority, rawPath) ==
  IF ~hasAuthority /\ ~StartsWith(rawPath, <<"/">>) THEN rawPath
  ELSE IF rawPath = << >> THEN (IF special THEN <<"/">> ELSE << >>)
  ELSE Only({IF n = << >> THEN <<"/">> ELSE JoinWith(n, "/") :
               n \in {DotSegments(SplitBy(Tail(rawPath), "/"), << >>)}})

\* host, port, path and query states: authority is what stands between the
\* slashes and the path, tail what follows it
HostState(scheme, special, hasAuthority, authority, tail) ==
  LET hostport == SubSeq(authority, LastIndexOf(authority, <<"@">>) + 1, Len(authority))
      colon == IndexOf(hostport, <<":">>)
      host == IF colon = 0 THEN hostport ELSE SubSeq(hostport, 1, colon - 1)
      port == IF colon = 0 THEN << >> ELSE SubSeq(hostport, colon + 1, Len(hostport))
      pathEnd == FirstOf(tail, {"?", "#"}) - 1
      afterPath == SubSeq(tail, pathEnd + 1, Len(tail))
      query == IF StartsWith(afterPath, <<"?">>)
               THEN SubSeq(afterPath, 1, FirstOf(afterPath, {"#"}) - 1)
               ELSE << >>
  IN  IF \/ special /\ host = << >>
         \/ Chars(host) \cap ForbiddenHostChars # {}
         \/ ~(Chars(port) \subseteq DigitSet)
      THEN NullObject
      ELSE [protocol |-> scheme \o <<":">>,
            hostname |-> IF special THEN ToLowerCase(host) ELSE host,
            pathname |-> PathnameOf(special, hasAuthority, SubSeq(tail, 1, pathEnd)),
            search   |-> IF query = <<"?">> THEN << >> ELSE query]

\* authority state: afterSlashes is what follows the slashes that open the
\* authority, or the scheme if there is no authority
AuthorityState(scheme, special, hasAuthority, afterSlashes) ==
  LET authEnd == IF hasAuthority
                 THEN FirstOf(afterSlashes,
                              IF special THEN {"/", "\\", "?", "#"} ELSE {"/", "?", "#"}) - 1
                 ELSE 0
  IN  Only({HostState(scheme, special, hasAuthority, authority, tail) :
              authority \in {SubSeq(afterSlashes, 1, authEnd)},
              tail \in {SubSeq(afterSlashes, authEnd + 1, Len(afterSlashes))}})

\* the states after the scheme: rest is what follows the colon; a special
\* scheme ignores the number of slashes before the authority
SlashesState(scheme, special, rest) ==
  LET slashes == FirstOf(rest, Chars(rest) \ {"/", "\\"}) - 1
      hasAuthority == IF special THEN TRUE ELSE StartsWith(rest, <<"/","/">>)
  IN  Only({AuthorityState(scheme, special, hasAuthority, afterSlashes) :
              afterSlashes \in {IF special THEN SubSeq(rest, slashes + 1, Len(rest))
                                ELSE IF hasAuthority THEN SubSeq(rest, 3, Len(rest))
                                ELSE rest}})

\* scheme state
SchemeState(url) ==
  LET c == IndexOf(url, <<":">>)
  IN  IF \/ c <= 1
         \/ ~IsLetter(url[1])
         \/ \E ch \in Chars(SubSeq(url, 1, c - 1)) : ~IsSchemeChar(ch)
      THEN NullObject
      ELSE Only({SlashesState(scheme, scheme \in SpecialSchemes, rest) :
                   scheme \in {ToLowerCase(SubSeq(url, 1, c - 1))},
                   rest \in {SubSeq(url, c + 1, Len(url))}})

\* new URL(input): null when the constructor throws
ParseUrl(input) ==
  Only({SchemeState(url) : url \in {Trim(input)}})

----------------------------------------------------------------------------
(* URL classifier and video service *)

\* the embed host every generated embed URL lives on
EmbedHost == <<"j","o","l","e","3","4","0","e","r","u","n",".","c","o","m">>

\* the match without the i flag: url.match(/\.(mp4|webm|ogg|mov)$/) !== null
MatchesVideoExtensionCaseSensitive(url) ==
  \E ext \in {<<".","m","p","4">>, <<".","w","e","b","m">>, <<".","o","g","g">>, <<".","m","o","v">>} : EndsWith(url, ext)

\* url.match(/\.(mp4|webm|ogg|mov)$/i) !== null
MatchesVideoExtension(url) ==
  \E ext \in {<<".","m","p","4">>, <<".","w","e","b","m">>, <<".","o","g","g">>, <<".","m","o","v">>} :
    /\ Len(ext) <= Len(url)
    /\ ToLowerCase(SubSeq(url, Len(url) - Len(ext) + 1, Len(url))) = ext

IsDirectVideoUrl(url) ==
  \/ EndsWith(url, <<".","m","3","u","8">>)
  \/ Includes(url, <<"/","s","t","r","e","a","m">>)
  \/ MatchesVideoExtension(url)

\* pathname.split('/').filter(Boolean)
PathParts(pathname) == SelectSeq(SplitBy(pathname, "/"), LAMBDA p : p # << >>)

\* the source configuration of url, urlObj being new URL(url); the params
\* field (the parsed query) is read by no caller and is left out
SourceConfig(url, urlObj) ==
  LET pathParts == PathParts(urlObj.pathname)
      isDirectVideo == \/ EndsWith(url, <<".","m","3","u","8">>)
                       \/ Includes(url, <<"/","s","t","r","e","a","m">>)
                       \/ MatchesVideoExtension(url)
  IN  [baseUrl |-> urlObj.protocol \o <<"/","/">> \o urlObj.hostname,
       videoId |-> IF pathParts = << >> THEN << >> ELSE pathParts[Len(pathParts)],
       isDirectVideo |-> isDirectVideo]

ParseVideoUrl(url) ==
  Only({IF urlObj = NullObject THEN NullObject ELSE SourceConfig(url, urlObj) :
          urlObj \in {ParseUrl(url)}})

StreamPath ==
  <<"/","s","t","r","e","a","m","2","/","i","-","c","d","n","-","0","/","4","2","7","3","6","f","a",
      "a","7","d","1","7","d","5","e","3","f","3","d","1","4","5","b","a","f","3","8","5","0","d","4",
      "4","/">>

StreamToken ==
  <<"M","J","T","M","s","p","1","R","s","h","G","T","y","g","n","M","N","R","U","R","2","N","2","M",
      "S","l","n","W","X","Z","E","d","M","N","D","Z","z","Q","W","e","5","M","D","Z","z","M","m","d",
      "Z","J","T","O","1","R","2","R","W","V","H","Z","D","l","j","e","k","h","k","S","s","l","1","V",
      "w","Y","n","W","t","x","2","c","i","h","V","T","2","1","k","e","R","N","T","W","U","1","E","N",
      "a","d","V","U","6","9","E","R","J","d","n","W","H","Z","U","a","O","p","2","Y","5","l","l","e",
      "o","x","2","T","E","F","E","e","Z","p","2","a","0","o","V","b","J","N","T","T","U","1","U","P",
      ":">>

StreamSuffix ==
  <<":","1","1","7",".","2","3","5",".","2","5","3",".","4","4",":","b","f","3","2","b","f","f","0",
      "c","b","f","d","a","4","d","f","c","7","b","1","d","4","e","3","2","e","e","4","f","2","6","4",
      "4","e","9","d","8","1","7","8","3","c","2","5","c","1","f","1","8","e","5","e","c","3","c","2",
      "6","1","c","c","0","a","d","9","/","1","0","8","0","/","i","n","d","e","x",".","m","3","u","8">>

\* what the promise of fetchNewVideoUrl settles with when its timeout fires
\* at time timestamp: REJECTED or the new URL
FetchNewVideoUrl(sourceConfig, timestamp) ==
  IF sourceConfig.baseUrl = << >> \/ sourceConfig.videoId = << >>
  THEN REJECTED
  ELSE IF sourceConfig.isDirectVideo
       THEN IF Includes(sourceConfig.baseUrl, <<"i","-","c","d","n">>)
            THEN sourceConfig.baseUrl \o StreamPath \o StreamToken
                 \o ToStr(timestamp) \o StreamSuffix
            ELSE sourceConfig.baseUrl \o sourceConfig.videoId \o <<"?","_","=">> \o ToStr(timestamp)
       ELSE sourceConfig.baseUrl \o <<"/","p","l","a","y","/">> \o sourceConfig.videoId
            \o <<"?","r","e","f","r","e","s","h","=">> \o ToStr(timestamp)

\* what the promise of extractOriginalVideoUrl resolves with when its
\* timeout fires at time timestamp, for an iframeUrl that parses
ExtractOriginalVideoUrl(iframeUrl, timestamp) ==
  LET sourceConfig == ParseVideoUrl(iframeUrl)
  IN  IF sourceConfig = NullObject THEN NULL
      ELSE IF Includes(iframeUrl, EmbedHost)
      THEN <<"h","t","t","p","s",":","/","/","i","-","c","d","n","-","0",".","j","o","l","e","3","4","0","e",
      "r","u","n",".","c","o","m">> \o StreamPath \o sourceConfig.videoId
           \o <<"/">> \o StreamToken \o ToStr(timestamp) \o StreamSuffix
      ELSE NULL

\* url.match(/tt\d+/): the leftmost "tt" followed by a digit, with all the
\* digits that follow it; "" without a match
ExtractMovieIdFromUrl(url) ==
  LET I == {i \in 1..(Len(url) - 2) :
              url[i] = "t" /\ url[i + 1] = "t" /\ IsDigit(url[i + 2])}
  IN  IF I = {} THEN << >>
      ELSE LET a == CHOOSE i \in I : \A j \in I : i <= j
               b == CHOOSE k \in (a + 2)..Len(url) :
                      /\ \A j \in (a + 2)..k : IsDigit(url[j])
                      /\ k = Len(url) \/ ~IsDigit(url[k + 1])
           IN  SubSeq(url, a, b)

\* the embed URL the [initialSrc] effect of VideoPlayer leaves in embedUrl
EmbedUrlOf(initialSrc, embedUrl) ==
  IF ~IsDirectVideoUrl(initialSrc) THEN initialSrc
  ELSE LET baseUrl == SplitFirst(initialSrc, <<"/","s","t","r","e","a","m">>)
           id == IF Includes(initialSrc, <<"/","p","l","a","y","/">>)
                 THEN SplitFirst(SplitSecond(initialSrc, <<"/","p","l","a","y","/">>), <<"?">>)
                 ELSE ExtractMovieIdFromUrl(initialSrc)
       IN  IF Includes(baseUrl, EmbedHost)
           THEN IF id # << >> THEN <<"h","t","t","p","s",":","/","/","j","o","l","e","3","4","0","e","r","u","n",".","c","o","m","/",
      "p","l","a","y","/">> \o id
                ELSE initialSrc
           ELSE embedUrl

\* the identifier handleMovieSelect and handleMovieIdSubmit put in the URL
FormatMovieId(id) ==
  IF ~StartsWith(id, <<"t","t">>) /\ IsNumeric(id) THEN <<"t","t">> \o id ELSE id

MovieUrl(formattedId) == <<"h","t","t","p","s",":","/","/","j","o","l","e","3","4","0","e","r","u","n",".","c","o","m","/",
      "p","l","a","y","/">> \o formattedId

----------------------------------------------------------------------------
(* Bounds of the model *)

\* service calls (fetchNewVideoUrl, extractOriginalVideoUrl) counted before
\* the user, the timers and the expiration check start no further one
MaxCalls == 2

\* the refreshInterval VideoFetcher passes to VideoPlayer (60 * 60 * 1000)
RefreshInterval == 3600000

\* values of the defaultVideoUrl prop: the one Index passes, a direct file
\* on another host, an embed page of another host whose URL has no path,
\* and a string that is no URL
DefaultUrls ==
  {<<"h","t","t","p","s",":","/","/","j","o","l","e","3","4","0","e","r","u","n",".","c","o","m","/",
      "p","l","a","y","/","t","t","2","7","9","9","5","5","9","4">>,
   <<"h","t","t","p","s",":","/","/","c","d","n",".","e","x","a","m","p","l","e",".","o","r","g","/",
      "v","i","d","e","o",".","m","p","4">>,
   <<"h","t","t","p","s",":","/","/","e","m","b","e","d",".","e","x","a","m","p","l","e",".","o","r",
      "g">>,
   <<"n","o","t"," ","a"," ","u","r","l">>}

\* contents of the movie ID field when the form is submitted
MovieIdInputs == {<< >>, <<" "," ">>, <<"2","7","9","9","5","5","9","4">>}

\* identifiers of the movies a search result list offers
SearchIds == {<<"t","t","2","7","9","9","5","5","9","4">>}

----------------------------------------------------------------------------
(* State *)

VARIABLES
  mounted,          \* VideoFetcher and the VideoPlayer it renders are mounted
  videoUrl,         \* VideoFetcher: the URL handed to the player as initialSrc and key
  expTimers,        \* armed setInterval(checkExpiration) timers, oldest first
  fetches,          \* bag of the fetchNewVideoUrl calls whose timeout has not fired
  videoSrc,         \* VideoPlayer state
  isLoading,
  hasError,
  isExtracting,
  originalVideoUrl,
  useEmbedView,
  embedUrl,
  refreshTimers,    \* armed setInterval(refreshVideoUrl) timers, oldest first
  extractions,      \* bag of the extractOriginalVideoUrl calls whose timeout has not fired
  switchOffered,    \* the "Switch" action of the media-error toast is on screen
  now,              \* Date.now() of the timeout that fired last
  calls,            \* service calls started so far, counted up to MaxCalls
  toast,            \* the toast VideoFetcher showed last
  searchQuery,      \* VideoFetcher: the content of the search field
  debouncedSearchQuery, \* useDebounce(searchQuery): its debouncedValue
  debounceTimers,   \* pending setTimeout timers of useDebounce, oldest first
  searchResults,    \* VideoFetcher: the result list on screen
  isSearching,
  searches,         \* bag of the searchMovies calls whose fetch has not settled
  isLoadingMovie,   \* VideoFetcher, TMDB revision: the player is replaced by a loader
  lookups,          \* bag of the getImdbId calls that have not settled
  searchCalls,      \* TMDB calls started so far, counted up to MaxSearchCalls
  notice,           \* the toast handleExtractOriginal showed last
  probeError,       \* what checkExpiration logged when isVideoUrlExpired failed last, or NoError
  plyrMounted,      \* PlyrPlayer is mounted
  plyrSrc,          \* PlyrPlayer: its src prop
  hls,              \* PlyrPlayer state: the Hls instance (its number), 0 for null
  playerMode,       \* PlyrPlayer state: "direct" or "iframe"
  iframeSrc,        \* PlyrPlayer state
  plyrSource,       \* playerRef.current.plyr.source: what the Plyr element plays
  hlsInstances,     \* the Hls instances created so far, in the order of creation
  hlsInstance,      \* the hlsInstance of the effect that ran last, 0 for null
  listening,        \* handleMessage is registered on window
  hlsTimers,        \* pending setTimeout callbacks of initializeHls
  inbox,            \* window messages posted and not dispatched yet
  call,             \* the call of a pure function under evaluation, or NoCall
  ret               \* what the call returned, or NoCall

fetcherVars == <<mounted, videoUrl, expTimers>>

playerVars == <<videoSrc, isLoading, hasError, isExtracting, originalVideoUrl,
                useEmbedView, embedUrl, refreshTimers, switchOffered>>

searchVars == <<searchQuery, debouncedSearchQuery, debounceTimers, searchResults,
                isSearching, searches, isLoadingMovie, lookups, searchCalls>>

pureVars == <<call, ret>>

logVars == <<probeError, notice>>

plyrVars == <<plyrMounted, plyrSrc, hls, playerMode, iframeSrc, plyrSource,
              hlsInstances, hlsInstance, listening, hlsTimers, inbox>>

\* PlyrPlayer is not mounted
NoPlyr ==
  /\ plyrMounted = FALSE
  /\ plyrSrc = << >>
  /\ hls = 0
  /\ playerMode = "direct"
  /\ iframeSrc = NULL
  /\ plyrSource = NULL
  /\ hlsInstances = << >>
  /\ hlsInstance = 0
  /\ listening = FALSE
  /\ hlsTimers = {}
  /\ inbox = << >>

vars == <<mounted, videoUrl, expTimers, fetches, videoSrc,
          isLoading, hasError, isExtracting, originalVideoUrl, useEmbedView,
          embedUrl, refreshTimers, extractions, switchOffered, now, calls,
          toast, searchVars, pureVars, logVars, plyrVars>>

\* no toast was shown, no pure function is under evaluation
NoToast == [level |-> "none", message |-> ""]

NoCall == [fn |-> "none"]

\* checkExpiration has caught no error of isVideoUrlExpired
NoError == [message |-> "", url |-> << >>]

\* toast.error(message), toast.warning(message), toast.success(message): a
\* message with an interpolated part is kept up to its colon
ToastError(message) == [level |-> "error", message |-> message]

ToastWarning(message) == [level |-> "warning", message |-> message]

ToastInfo(message) == [level |-> "info", message |-> message]

ToastSuccess(message) == [level |-> "success", message |-> message]

\* the bag B with one more copy of call t
Started(B, t) == B (+) SetToBag({t})

\* the bag B with one copy less of call t
Settled(B, t) == B (-) SetToBag({t})

\* the calls of B once the player that awaits them is unmounted
Orphaned(B) ==
  [t \in {[c EXCEPT !.live = FALSE] : c \in BagToSet(B)} |->
     CopiesIn(t, B) + CopiesIn([t EXCEPT !.live = TRUE], B)]

\* the calls of B a mounted player awaits
Live(B) == {t \in BagToSet(B) : t.live}

\* the number of calls of B a mounted player awaits
LiveCount(B) == BagCardinality([t \in Live(B) |-> CopiesIn(t, B)])

\* the call counter after n more calls have started
Counted(n) == IF calls + n > MaxCalls THEN MaxCalls ELSE calls + n

\* the render with the forced embed view tested before the error flag
RenderedViewToggleFirst(error, embedView, embed, src) ==
  IF embedView /\ embed # << >> THEN "embed"
  ELSE IF error THEN "error"
  ELSE IF IsDirectVideoUrl(src) THEN "direct"
  ELSE "embed"

\* what the player renders in its video container
RenderedView(error, embedView, embed, src) ==
  IF error THEN "error"
  ELSE IF embedView /\ embed # << >> THEN "embed"
  ELSE IF IsDirectVideoUrl(src) THEN "direct"
  ELSE "embed"

View == RenderedView(hasError, useEmbedView, embedUrl, videoSrc)

----------------------------------------------------------------------------
(* Effects *)

\* a cleanup of the player's timer effect that clears nothing
KeepTimerRef(timers) == timers

\* cleanup of the player's timer effect: clearInterval(timerRef.current),
\* timerRef.current being the timer armed last
ClearTimerRef(timers) ==
  IF timers = << >> THEN << >> ELSE SubSeq(timers, 1, Len(timers) - 1)

\* body of the player's timer effect: setInterval(refreshVideoUrl, refreshInterval),
\* refreshVideoUrl being the one of the render with videoSrc = src, whose
\* fetchNewUrl refreshes url
ArmRefreshTimer(timers, src, url) ==
  IF RefreshInterval > 0 THEN Append(timers, [src |-> src, url |-> url]) ELSE timers

\* an expiration effect that returns no cleanup
KeepExpInterval(timers) == timers

\* cleanup of the fetcher's expiration effect: clearInterval(interval)
ClearExpInterval(timers) ==
  IF timers = << >> THEN << >> ELSE SubSeq(timers, 1, Len(timers) - 1)

\* an effect of useDebounce that returns no cleanup
KeepDebounceTimer(timers) == timers

\* cleanup of the effect of useDebounce: clearTimeout(timer)
ClearDebounceTimer(timers) ==
  IF timers = << >> THEN << >> ELSE SubSeq(timers, 1, Len(timers) - 1)

\* the timers of useDebounce after setSearchQuery(value): the effect runs
\* again when the value is a new one
DebounceEffect(value) ==
  IF value = searchQuery THEN debounceTimers
  ELSE Append(ClearDebounceTimer(debounceTimers), [value |-> value])

\* a handleExtractOriginal whose service call waits for its timeout whatever
\* parseVideoUrl returned
StartsExtractionUnparsed(src) == ~IsDirectVideoUrl(src)

\* a call of handleExtractOriginal with videoSrc = src puts a call of the
\* service in flight
StartsExtraction(src) ==
  ~IsDirectVideoUrl(src) /\ ParseVideoUrl(src) # NullObject

\* handleExtractOriginal called by a render whose videoSrc is src, up to
\* its await, the calls in flight being the bag base and shown the toast
\* of handleExtractOriginal on screen
HandleExtractOriginal(src, base, shown) ==
  IF IsDirectVideoUrl(src)
  THEN /\ notice' = ToastInfo("This is already a direct video URL")
       /\ isExtracting' = isExtracting
       /\ extractions' = base
  ELSE IF ParseVideoUrl(src) = NullObject
  THEN \* extractOriginalVideoUrl returns null at once
       /\ notice' = ToastError("Could not extract original video URL")
       /\ isExtracting' = FALSE
       /\ extractions' = base
  ELSE /\ notice' = shown
       /\ isExtracting' = TRUE
       /\ extractions' = Started(base, [url |-> src, live |-> TRUE])

\* the timer effect of the player run again for videoSrc = src, in a render
\* whose originalVideoUrl is original and whose isExtracting is extracting
TimerEffect(src, original, extracting, base, shown) ==
  /\ refreshTimers' = ArmRefreshTimer(ClearTimerRef(refreshTimers), src, videoUrl)
  /\ IF ~IsDirectVideoUrl(src) /\ original = NULL
     THEN HandleExtractOriginal(src, base, shown)
     ELSE /\ notice' = shown
          /\ isExtracting' = extracting
          /\ extractions' = base

\* a new VideoPlayer whose timer effect does not call checkAndExtractForTV
MountPlayerNoExtraction(initialSrc, base) ==
  /\ videoSrc' = initialSrc
  /\ isLoading' = FALSE
  /\ hasError' = FALSE
  /\ originalVideoUrl' = NULL
  /\ useEmbedView' = FALSE
  /\ embedUrl' = EmbedUrlOf(initialSrc, << >>)
  /\ refreshTimers' = ArmRefreshTimer(ClearTimerRef(refreshTimers), initialSrc, initialSrc)
  /\ isExtracting' = FALSE
  /\ extractions' = base
  /\ notice' = notice
  /\ switchOffered' = FALSE

\* a new VideoPlayer is mounted with initialSrc
MountPlayer(initialSrc, base) ==
  /\ videoSrc' = initialSrc
  /\ isLoading' = FALSE
  /\ hasError' = FALSE
  /\ originalVideoUrl' = NULL
  /\ useEmbedView' = FALSE
  /\ embedUrl' = EmbedUrlOf(initialSrc, << >>)
  /\ refreshTimers' = ArmRefreshTimer(ClearTimerRef(refreshTimers), initialSrc, initialSrc)
  /\ IF StartsExtraction(initialSrc)
     THEN /\ isExtracting' = TRUE
          /\ extractions' = Started(base, [url |-> initialSrc, live |-> TRUE])
          /\ notice' = notice
     ELSE \* a direct source, or one extractOriginalVideoUrl returns null for at once
          /\ isExtracting' = FALSE
          /\ extractions' = base
          /\ notice' = IF IsDirectVideoUrl(initialSrc) THEN notice
                       ELSE ToastError("Could not extract original video URL")
  /\ switchOffered' = FALSE

\* checkExpiration of the render with videoUrl = url starts a refresh,
\* isVideoUrlExpired answering expired
StartsRefresh(url, expired) ==
  expired /\ ParseVideoUrl(url) # NullObject

\* checkExpiration of the render with videoUrl = url, isVideoUrlExpired
\* answering expired: the fetchNewVideoUrl calls in flight after it, base
\* being those in flight before.  isVideoUrlExpired resolves at once, so
\* nothing runs between the call of checkExpiration and its refresh; a
\* refresh that throws is logged.
CheckExpiration(url, expired, base) ==
  LET sourceConfig == ParseVideoUrl(url)
  IN  IF expired /\ sourceConfig # NullObject
      THEN Started(base, [by |-> "expiry", live |-> FALSE, cfg |-> sourceConfig])
      ELSE base

\* the toast on screen after checkExpiration of the render with videoUrl =
\* url, isVideoUrlExpired answering expired and shown being the toast before
\* it: the warning, replaced at once by the error of a refresh that throws
\* before its await
ExpirationToast(url, expired, shown) ==
  IF ~expired THEN shown
  ELSE IF ParseVideoUrl(url) = NullObject
  THEN ToastError("Failed to refresh video URL")
  ELSE ToastWarning("Video URL has expired, refreshing...")

\* setVideoUrl(newUrl) with newUrl # videoUrl, base being the
\* fetchNewVideoUrl calls in flight and shown the toast of the handler that
\* calls it: the player, keyed by videoUrl, is replaced by a new one and the
\* expiration effect runs again
SetVideoUrl(newUrl, base, shown) ==
  /\ videoUrl' = newUrl
  /\ MountPlayer(newUrl, Orphaned(extractions))
  /\ expTimers' = Append(ClearExpInterval(expTimers), [url |-> newUrl])
  /\ \E expired \in BOOLEAN :
       /\ fetches' = CheckExpiration(newUrl, expired, Orphaned(base))
       /\ toast' = ExpirationToast(newUrl, expired, shown)
       /\ BagCardinality(fetches') > BagCardinality(base) => calls < MaxCalls
       /\ calls' = Counted(BagCardinality(fetches') - BagCardinality(base)
                           + BagCardinality(extractions') - BagCardinality(extractions))

----------------------------------------------------------------------------
(* Initial state: VideoFetcher mounted with defaultVideoUrl *)

Init ==
  /\ mounted = TRUE
  /\ videoUrl \in DefaultUrls
  /\ expTimers = <<[url |-> videoUrl]>>
  /\ \E expired \in BOOLEAN :
       /\ fetches = CheckExpiration(videoUrl, expired, EmptyBag)
       /\ toast = ExpirationToast(videoUrl, expired, NoToast)
       /\ calls = (IF StartsRefresh(videoUrl, expired) THEN 1 ELSE 0)
                  + (IF StartsExtraction(videoUrl) THEN 1 ELSE 0)
  /\ videoSrc = videoUrl
  /\ isLoading = FALSE
  /\ hasError = FALSE
  /\ originalVideoUrl = NULL
  /\ useEmbedView = FALSE
  /\ embedUrl = EmbedUrlOf(videoUrl, << >>)
  /\ refreshTimers = ArmRefreshTimer(<< >>, videoUrl, videoUrl)
  /\ isExtracting = StartsExtraction(videoUrl)
  /\ extractions = IF StartsExtraction(videoUrl)
                   THEN SetToBag({[url |-> videoUrl, live |-> TRUE]})
                   ELSE EmptyBag
  /\ switchOffered = FALSE
  /\ now = 0
  /\ searchQuery = << >>
  /\ debouncedSearchQuery = << >>
  /\ debounceTimers = <<[value |-> << >>]>>
  /\ searchResults = << >>
  /\ isSearching = FALSE
  /\ searches = EmptyBag
  /\ isLoadingMovie = FALSE
  /\ lookups = EmptyBag
  /\ searchCalls = 0
  /\ notice = IF IsDirectVideoUrl(videoUrl) \/ StartsExtraction(videoUrl) THEN NoToast
              ELSE ToastError("Could not extract original video URL")
  /\ probeError = NoError
  /\ NoPlyr
  /\ call = NoCall
  /\ ret = NoCall

----------------------------------------------------------------------------
(* VideoFetcher *)

\* the user submits the movie ID form, movieId being the content of its
\* field (the state onChange keeps equal to what the user typed)
HandleMovieIdSubmit(movieId) ==
  /\ mounted
  /\ UNCHANGED <<mounted, now, searchVars, pureVars, probeError, plyrVars>>
  /\ IF IsBlank(movieId)
     THEN /\ toast' = ToastError("Please enter a movie ID")
          /\ UNCHANGED <<videoUrl, expTimers, fetches, videoSrc, isLoading,
                         hasError, isExtracting, originalVideoUrl, useEmbedView,
                         embedUrl, refreshTimers, extractions, switchOffered, calls,
                         notice>>
     ELSE LET newUrl == MovieUrl(FormatMovieId(movieId))
          IN  IF newUrl = videoUrl
              THEN \* setVideoUrl with the value it has renders nothing again
                   /\ toast' = ToastSuccess("Loaded movie ID")
                   /\ UNCHANGED <<videoUrl, expTimers, fetches, videoSrc,
                                  isLoading, hasError, isExtracting, originalVideoUrl,
                                  useEmbedView, embedUrl, refreshTimers, extractions,
                                  switchOffered, calls, notice>>
              ELSE SetVideoUrl(newUrl, fetches, ToastSuccess("Loaded movie ID"))

\* the user picks a movie of the search result list
HandleMovieSelect(id) ==
  LET formattedId == FormatMovieId(id)
      newUrl == MovieUrl(formattedId)
  IN  /\ mounted
      /\ UNCHANGED <<mounted, now, pureVars, probeError, plyrVars>>
      /\ searchQuery' = << >>
      /\ debounceTimers' = DebounceEffect(<< >>)
      /\ searchResults' = << >>
      /\ UNCHANGED <<debouncedSearchQuery, isSearching, searches, isLoadingMovie,
                     lookups, searchCalls>>
      /\ IF newUrl = videoUrl
         THEN /\ toast' = ToastSuccess("Loading")
              /\ UNCHANGED <<videoUrl, expTimers, fetches, videoSrc, isLoading,
                             hasError, isExtracting, originalVideoUrl, useEmbedView,
                             embedUrl, refreshTimers, extractions, switchOffered, calls,
                             notice>>
         ELSE SetVideoUrl(newUrl, fetches, ToastSuccess("Loading"))

\* an expiration-check timer fires: checkExpiration runs
ExpTimerTick ==
  \E i \in 1..Len(expTimers) : \E expired \in BOOLEAN :
    /\ fetches' = CheckExpiration(expTimers[i].url, expired, fetches)
    /\ toast' = ExpirationToast(expTimers[i].url, expired, toast)
    /\ fetches' # fetches => calls < MaxCalls
    /\ calls' = Counted(BagCardinality(fetches') - BagCardinality(fetches))
    /\ UNCHANGED <<mounted, videoUrl, expTimers, videoSrc,
                   isLoading, hasError, isExtracting, originalVideoUrl, useEmbedView,
                   embedUrl, refreshTimers, extractions, switchOffered, now,
                   searchVars, pureVars, logVars, plyrVars>>

\* FetchDone for a player whose refreshVideoUrl has no finally block: a
\* rejected call leaves isLoading as it is
FetchDoneNoFinally(f) ==
  \E newUrl \in {FetchNewVideoUrl(f.cfg, now + 1)} :
      /\ now' = now + 1
      /\ UNCHANGED <<mounted, searchVars, pureVars, probeError, plyrVars>>
      /\ IF newUrl = REJECTED
         THEN /\ fetches' = Settled(fetches, f)
              /\ toast' = ToastError("Failed to refresh video URL")
              /\ hasError' = IF f.live THEN TRUE ELSE hasError
              /\ UNCHANGED <<videoUrl, expTimers, videoSrc, isLoading, isExtracting,
                             originalVideoUrl, useEmbedView, embedUrl, refreshTimers,
                             extractions, switchOffered, calls, notice>>
         ELSE IF mounted /\ newUrl # videoUrl
         THEN SetVideoUrl(newUrl, Settled(fetches, f), toast)
         ELSE IF f.live
         THEN /\ fetches' = Settled(fetches, f)
              /\ videoSrc' = newUrl
              /\ embedUrl' = IF ~IsDirectVideoUrl(newUrl) THEN newUrl ELSE embedUrl
              /\ isLoading' = FALSE
              /\ IF newUrl # videoSrc
                 THEN TimerEffect(newUrl, originalVideoUrl, isExtracting, extractions, notice)
                 ELSE UNCHANGED <<refreshTimers, isExtracting, extractions, notice>>
              /\ UNCHANGED <<videoUrl, expTimers, hasError, originalVideoUrl,
                             useEmbedView, switchOffered, calls, toast>>
         ELSE /\ fetches' = Settled(fetches, f)
              /\ UNCHANGED <<videoUrl, expTimers, videoSrc, isLoading,
                             hasError, isExtracting, originalVideoUrl, useEmbedView,
                             embedUrl, refreshTimers, extractions, switchOffered, calls,
                             toast, notice>>

\* the timeout of a fetchNewVideoUrl call fires: the fetcher's
\* refreshVideoUrl resumes, then the player's, if a player awaits it.  The
\* clock has moved on since the timeout that fired before it.
FetchDone(f) ==
  \E newUrl \in {FetchNewVideoUrl(f.cfg, now + 1)} :
      /\ now' = now + 1
      /\ UNCHANGED <<mounted, searchVars, pureVars, probeError, plyrVars>>
      /\ IF newUrl = REJECTED
         THEN \* the fetcher rethrows: checkExpiration logs, the player catches
              /\ fetches' = Settled(fetches, f)
              /\ toast' = ToastError("Failed to refresh video URL")
              /\ hasError' = IF f.live THEN TRUE ELSE hasError
              /\ isLoading' = IF f.live THEN FALSE ELSE isLoading
              /\ UNCHANGED <<videoUrl, expTimers, videoSrc, isExtracting,
                             originalVideoUrl, useEmbedView, embedUrl, refreshTimers,
                             extractions, switchOffered, calls, notice>>
         ELSE IF mounted /\ newUrl # videoUrl
         THEN SetVideoUrl(newUrl, Settled(fetches, f), toast)
         ELSE IF f.live
         THEN /\ fetches' = Settled(fetches, f)
              /\ videoSrc' = newUrl
              /\ embedUrl' = IF ~IsDirectVideoUrl(newUrl) THEN newUrl ELSE embedUrl
              /\ isLoading' = FALSE
              /\ IF newUrl # videoSrc
                 THEN TimerEffect(newUrl, originalVideoUrl, isExtracting, extractions, notice)
                 ELSE UNCHANGED <<refreshTimers, isExtracting, extractions, notice>>
              /\ UNCHANGED <<videoUrl, expTimers, hasError, originalVideoUrl,
                             useEmbedView, switchOffered, calls, toast>>
         ELSE /\ fetches' = Settled(fetches, f)
              /\ UNCHANGED <<videoUrl, expTimers, videoSrc, isLoading,
                             hasError, isExtracting, originalVideoUrl, useEmbedView,
                             embedUrl, refreshTimers, extractions, switchOffered, calls,
                             toast, notice>>

\* VideoFetcher is unmounted, and its VideoPlayer with it: the state of
\* both is gone, the calls in flight stay
Unmount ==
  /\ mounted
  /\ mounted' = FALSE
  /\ expTimers' = ClearExpInterval(expTimers)
  /\ refreshTimers' = ClearTimerRef(refreshTimers)
  /\ fetches' = Orphaned(fetches)
  /\ extractions' = Orphaned(extractions)
  /\ videoUrl' = << >>
  /\ videoSrc' = << >>
  /\ isLoading' = FALSE
  /\ hasError' = FALSE
  /\ isExtracting' = FALSE
  /\ originalVideoUrl' = NULL
  /\ useEmbedView' = FALSE
  /\ embedUrl' = << >>
  /\ switchOffered' = FALSE
  /\ searchQuery' = << >>
  /\ debouncedSearchQuery' = << >>
  /\ debounceTimers' = ClearDebounceTimer(debounceTimers)
  /\ searchResults' = << >>
  /\ isSearching' = FALSE
  /\ searches' = Orphaned(searches)
  /\ isLoadingMovie' = FALSE
  /\ lookups' = Orphaned(lookups)
  /\ UNCHANGED <<now, calls, toast, searchCalls, pureVars, logVars, plyrVars>>

----------------------------------------------------------------------------
(* VideoPlayer *)

\* refreshVideoUrl of the player, whose fetchNewUrl is the fetcher's
\* refreshVideoUrl of the render with videoUrl = url, up to its await
RefreshVideoUrl(url) ==
  LET sourceConfig == ParseVideoUrl(url)
  IN  /\ UNCHANGED <<mounted, videoUrl, expTimers, videoSrc,
                     isExtracting, originalVideoUrl, useEmbedView, embedUrl,
                     refreshTimers, extractions, switchOffered, now,
                     searchVars, pureVars, logVars, plyrVars>>
      /\ IF sourceConfig = NullObject
         THEN \* the fetcher throws and the player catches before anything else runs
              /\ isLoading' = FALSE
              /\ hasError' = TRUE
              /\ toast' = ToastError("Failed to refresh video URL")
              /\ UNCHANGED <<fetches, calls>>
         ELSE /\ calls < MaxCalls
              /\ UNCHANGED toast
              /\ calls' = Counted(1)
              /\ isLoading' = TRUE
              /\ hasError' = FALSE
              /\ fetches' = Started(fetches, [by |-> "player", live |-> TRUE,
                                              cfg |-> sourceConfig])

\* the Refresh and Refresh Video buttons, disabled while isLoading
ClickRefresh ==
  /\ mounted
  /\ ~isLoading
  /\ RefreshVideoUrl(videoUrl)

\* the Try Again button of the error view
TryAgain ==
  /\ mounted
  /\ hasError
  /\ RefreshVideoUrl(videoUrl)

\* a refresh-interval timer fires
RefreshTimerTick ==
  \E i \in 1..Len(refreshTimers) : RefreshVideoUrl(refreshTimers[i].url)

\* extract buttons that are not disabled while isExtracting
ClickExtractNotDisabled ==
  /\ mounted
  /\ ~IsDirectVideoUrl(videoSrc)
  /\ ~useEmbedView
  /\ HandleExtractOriginal(videoSrc, extractions, notice)
  /\ extractions' # extractions => calls < MaxCalls
  /\ calls' = Counted(BagCardinality(extractions') - BagCardinality(extractions))
  /\ UNCHANGED <<mounted, videoUrl, expTimers, fetches, videoSrc,
                 isLoading, hasError, originalVideoUrl, useEmbedView, embedUrl,
                 refreshTimers, switchOffered, now, toast, searchVars, pureVars,
                 probeError, plyrVars>>

\* the Extract Original and Get Direct Stream buttons, disabled while isExtracting
ClickExtract ==
  /\ mounted
  /\ ~IsDirectVideoUrl(videoSrc)
  /\ ~useEmbedView
  /\ ~isExtracting
  /\ HandleExtractOriginal(videoSrc, extractions, notice)
  /\ extractions' # extractions => calls < MaxCalls
  /\ calls' = Counted(BagCardinality(extractions') - BagCardinality(extractions))
  /\ UNCHANGED <<mounted, videoUrl, expTimers, fetches, videoSrc,
                 isLoading, hasError, originalVideoUrl, useEmbedView, embedUrl,
                 refreshTimers, switchOffered, now, toast, searchVars, pureVars,
                 probeError, plyrVars>>

\* ExtractDone for a handleExtractOriginal that only records the extracted
\* URL: no setVideoSrc, no setUseEmbedView
ExtractDoneAuxiliaryOnly(e) ==
  \E extractedUrl \in {ExtractOriginalVideoUrl(e.url, now + 1)} :
      /\ now' = now + 1
      /\ extractions' = Settled(extractions, e)
      /\ isExtracting' = IF e.live THEN FALSE ELSE isExtracting
      /\ originalVideoUrl' = IF e.live /\ extractedUrl # NULL THEN extractedUrl
                             ELSE originalVideoUrl
      /\ notice' = IF extractedUrl # NULL
                   THEN ToastSuccess("Using direct video stream for better TV compatibility")
                   ELSE ToastError("Could not extract original video URL")
      /\ UNCHANGED <<mounted, videoUrl, expTimers, fetches, videoSrc, isLoading,
                     hasError, useEmbedView, embedUrl, refreshTimers, switchOffered,
                     calls, toast, searchVars, pureVars, probeError, plyrVars>>

\* the timeout of an extractOriginalVideoUrl call fires and
\* handleExtractOriginal resumes
ExtractDone(e) ==
  \E extractedUrl \in {ExtractOriginalVideoUrl(e.url, now + 1)} :
      /\ now' = now + 1
      /\ UNCHANGED <<mounted, videoUrl, expTimers, fetches,
                     isLoading, hasError, embedUrl, switchOffered, calls,
                     toast, searchVars, pureVars, probeError, plyrVars>>
      /\ IF ~e.live
         THEN \* the player is gone: only the toast is seen
              /\ extractions' = Settled(extractions, e)
              /\ notice' = IF extractedUrl # NULL
                           THEN ToastSuccess("Using direct video stream for better TV compatibility")
                           ELSE ToastError("Could not extract original video URL")
              /\ UNCHANGED <<videoSrc, isExtracting, originalVideoUrl, useEmbedView,
                             refreshTimers>>
         ELSE IF extractedUrl # NULL
         THEN /\ originalVideoUrl' = extractedUrl
              /\ videoSrc' = extractedUrl
              /\ useEmbedView' = FALSE
              /\ IF extractedUrl # videoSrc
                 THEN TimerEffect(extractedUrl, extractedUrl, FALSE, Settled(extractions, e),
                        ToastSuccess("Using direct video stream for better TV compatibility"))
                 ELSE /\ isExtracting' = FALSE
                      /\ extractions' = Settled(extractions, e)
                      /\ notice' = ToastSuccess("Using direct video stream for better TV compatibility")
                      /\ UNCHANGED refreshTimers
         ELSE /\ notice' = ToastError("Could not extract original video URL")
              /\ isExtracting' = FALSE
              /\ extractions' = Settled(extractions, e)
              /\ UNCHANGED <<videoSrc, originalVideoUrl, useEmbedView, refreshTimers>>

\* the Embed Player / Direct Player buttons and Try Embed Player
ToggleEmbedView ==
  /\ mounted
  /\ IsDirectVideoUrl(videoSrc) \/ embedUrl # << >>
  /\ useEmbedView' = ~useEmbedView
  /\ UNCHANGED <<mounted, videoUrl, expTimers, fetches, videoSrc,
                 isLoading, hasError, isExtracting, originalVideoUrl, embedUrl,
                 refreshTimers, extractions, switchOffered, now, calls,
                 toast, searchVars, pureVars, logVars, plyrVars>>

\* onError of the rendered iframe or video element
HandleMediaError ==
  /\ mounted
  /\ ~hasError
  /\ hasError' = TRUE
  /\ switchOffered' = (switchOffered \/
       (IsDirectVideoUrl(videoSrc) /\ ~useEmbedView /\ embedUrl # << >>))
  /\ UNCHANGED <<mounted, videoUrl, expTimers, fetches, videoSrc,
                 isLoading, isExtracting, originalVideoUrl, useEmbedView, embedUrl,
                 refreshTimers, extractions, now, calls,
                 toast, searchVars, pureVars, logVars, plyrVars>>

\* the Switch action of the toast handleMediaError shows
ClickSwitch ==
  /\ switchOffered
  /\ useEmbedView' = TRUE
  /\ switchOffered' = FALSE
  /\ UNCHANGED <<mounted, videoUrl, expTimers, fetches, videoSrc,
                 isLoading, hasError, isExtracting, originalVideoUrl, embedUrl,
                 refreshTimers, extractions, now, calls,
                 toast, searchVars, pureVars, logVars, plyrVars>>

\* the Use Direct Stream button, rendered while originalVideoUrl is set and
\* differs from videoSrc
SwitchToOriginalSource ==
  /\ mounted
  /\ originalVideoUrl # NULL
  /\ videoSrc # originalVideoUrl
  /\ ~useEmbedView
  /\ videoSrc' = originalVideoUrl
  /\ useEmbedView' = FALSE
  /\ TimerEffect(originalVideoUrl, originalVideoUrl, isExtracting, extractions, notice)
  /\ UNCHANGED <<mounted, videoUrl, expTimers, fetches, isLoading,
                 hasError, originalVideoUrl, embedUrl, switchOffered, now, calls,
                 toast, searchVars, pureVars, probeError, plyrVars>>

----------------------------------------------------------------------------
\* SwitchToOriginalSource is left out: its button is never rendered, every
\* change of videoSrc away from originalVideoUrl replacing the player
\* (UseDirectStreamHidden)
Next ==
  \/ \E movieId \in MovieIdInputs : HandleMovieIdSubmit(movieId)
  \/ \E id \in SearchIds : HandleMovieSelect(id)
  \/ ExpTimerTick
  \/ \E f \in BagToSet(fetches) : FetchDone(f)
  \/ Unmount
  \/ ClickRefresh
  \/ TryAgain
  \/ RefreshTimerTick
  \/ ClickExtract
  \/ \E e \in BagToSet(extractions) : ExtractDone(e)
  \/ ToggleEmbedView
  \/ HandleMediaError
  \/ ClickSwitch

Spec == Init /\ [][Next]_vars

\* the Use Direct Stream button is never rendered
UseDirectStreamHidden ==
  originalVideoUrl # NULL => videoSrc = originalVideoUrl

----------------------------------------------------------------------------
(* Fairness: a timeout that is set fires.  setTimeout is served by the     *)
(* event loop whatever else the page does, so the timeout of a call in     *)
(* flight is weakly fair.                                                  *)

FetchSettles == \E f \in BagToSet(fetches) : FetchDone(f)

ExtractionSettles == \E e \in BagToSet(extractions) : ExtractDone(e)

FairSpec ==
  /\ Spec
  /\ WF_vars(FetchSettles)
  /\ WF_vars(ExtractionSettles)

----------------------------------------------------------------------------
(* Search coordinator: the search field, useDebounce and the performSearch *)
(* effect of the revision of VideoFetcher that searches TMDB, with its     *)
(* handleMovieSelect.  That revision renders a loader in place of the      *)
(* player while isLoadingMovie is true.  The handlers of the player and    *)
(* the expiration check neither read nor write the search state, so the    *)
(* search coordinator is checked with the steps that do.                   *)

\* TMDB calls (searchMovies, getImdbId) counted before the user starts no
\* further one
MaxSearchCalls == 2

\* what the search field holds after a key is pressed
Queries == {<< >>, <<"b">>, <<"b","a">>, <<"b","a","t">>}

\* the movies TMDB knows
TmdbMovies ==
  <<[id |-> 268, title |-> <<"B","a","t","m","a","n">>, imdb_id |-> <<"t","t","0","0","9","6","8","9","5">>],
    [id |-> 3170, title |-> <<"B","a","m","b","i">>, imdb_id |-> <<"t","t","0","0","3","4","4","9","2">>]>>

\* data.results of /search/movie?query=: the movies whose title contains the
\* query, as TMDBMovieResult
TmdbResults(query) ==
  LET found == SelectSeq(TmdbMovies,
                 LAMBDA m : Includes(ToLowerCase(m.title), ToLowerCase(query)))
  IN  [i \in 1..Len(found) |-> [id |-> found[i].id, title |-> found[i].title]]

\* movieDetails.imdb_id of /movie/{tmdbId}
ImdbIdOf(tmdbId) ==
  LET m == CHOOSE m \in {TmdbMovies[i] : i \in 1..Len(TmdbMovies)} : m.id = tmdbId
  IN  m.imdb_id

\* searchMovies(query) gets as far as its fetch
SearchMoviesFetches(query) == ~(query = << >> \/ Len(query) < 2)

\* a performSearch that calls searchMovies for every query that is not empty
PerformSearchAnyQuery(query) ==
  IF query # << >>
  THEN /\ searchCalls < MaxSearchCalls
       /\ searchCalls' = searchCalls + 1
       /\ isSearching' = TRUE
       /\ searches' = Started(searches, [query |-> query, live |-> TRUE])
       /\ UNCHANGED searchResults
  ELSE /\ searchResults' = << >>
       /\ UNCHANGED <<isSearching, searches, searchCalls>>

\* the performSearch effect of a render with debouncedSearchQuery = query, up
\* to its await
PerformSearch(query) ==
  IF query # << >> /\ Len(query) >= 2
  THEN IF SearchMoviesFetches(query)
       THEN /\ searchCalls < MaxSearchCalls
            /\ searchCalls' = searchCalls + 1
            /\ isSearching' = TRUE
            /\ searches' = Started(searches, [query |-> query, live |-> TRUE])
            /\ UNCHANGED searchResults
       ELSE \* searchMovies returns [] with no fetch
            /\ searchResults' = << >>
            /\ isSearching' = FALSE
            /\ UNCHANGED <<searches, searchCalls>>
  ELSE /\ searchResults' = << >>
       /\ UNCHANGED <<isSearching, searches, searchCalls>>

\* onChange of the search field: a key is pressed
SetSearchQuery(value) ==
  /\ mounted
  /\ value # searchQuery
  /\ searchQuery' = value
  /\ debounceTimers' = DebounceEffect(value)
  /\ UNCHANGED <<debouncedSearchQuery, searchResults, isSearching, searches,
                 isLoadingMovie, lookups, searchCalls>>
  /\ UNCHANGED <<fetcherVars, playerVars, fetches, extractions, now, calls,
                 toast, pureVars, logVars, plyrVars>>

\* a timer of useDebounce fires: setDebouncedValue(value), and the
\* performSearch effect if that is a new value
DebounceTimerFires ==
  \E i \in 1..Len(debounceTimers) :
    /\ debounceTimers' = SubSeq(debounceTimers, 1, i - 1)
                         \o SubSeq(debounceTimers, i + 1, Len(debounceTimers))
    /\ IF mounted /\ debounceTimers[i].value # debouncedSearchQuery
       THEN /\ debouncedSearchQuery' = debounceTimers[i].value
            /\ PerformSearch(debounceTimers[i].value)
       ELSE UNCHANGED <<debouncedSearchQuery, searchResults, isSearching,
                        searches, searchCalls>>
    /\ UNCHANGED <<searchQuery, isLoadingMovie, lookups>>
    /\ UNCHANGED <<fetcherVars, playerVars, fetches, extractions, now, calls,
                   toast, pureVars, logVars, plyrVars>>

\* the fetch of a searchMovies call settles and performSearch resumes: with
\* data.results, or in its catch block when the fetch failed or the
\* response was not ok
SearchDone(s) ==
  \E ok \in BOOLEAN :
    /\ searches' = Settled(searches, s)
    /\ IF ok
       THEN /\ searchResults' = IF s.live THEN TmdbResults(s.query) ELSE searchResults
            /\ UNCHANGED toast
       ELSE /\ toast' = ToastError("Failed to search movies")
            /\ UNCHANGED searchResults
    /\ isSearching' = IF s.live THEN FALSE ELSE isSearching
    /\ UNCHANGED <<searchQuery, debouncedSearchQuery, debounceTimers,
                   isLoadingMovie, lookups, searchCalls>>
    /\ UNCHANGED <<fetcherVars, playerVars, fetches, extractions, now, calls,
                   pureVars, logVars, plyrVars>>

\* a movie of the result list is clicked: handleMovieSelect up to its await.
\* The loader takes the place of the player.
SelectMovie(i) ==
  /\ mounted
  /\ i \in 1..Len(searchResults)
  /\ searchCalls < MaxSearchCalls
  /\ searchCalls' = searchCalls + 1
  /\ isLoadingMovie' = TRUE
  /\ lookups' = Started(lookups, [movie |-> searchResults[i], live |-> TRUE])
  /\ IF isLoadingMovie
     THEN UNCHANGED <<playerVars, fetches, extractions>>
     ELSE /\ refreshTimers' = ClearTimerRef(refreshTimers)
          /\ fetches' = Orphaned(fetches)
          /\ extractions' = Orphaned(extractions)
          /\ videoSrc' = << >>
          /\ isLoading' = FALSE
          /\ hasError' = FALSE
          /\ isExtracting' = FALSE
          /\ originalVideoUrl' = NULL
          /\ useEmbedView' = FALSE
          /\ embedUrl' = << >>
          /\ switchOffered' = FALSE
  /\ UNCHANGED <<searchQuery, debouncedSearchQuery, debounceTimers, searchResults,
                 isSearching, searches>>
  /\ UNCHANGED <<fetcherVars, now, calls, toast, pureVars, logVars, plyrVars>>

\* the getImdbId call of a handleMovieSelect settles, with the IMDB ID or
\* with null, and handleMovieSelect resumes; the player is rendered again
ImdbIdDone(l) ==
  \E imdbId \in {ImdbIdOf(l.movie.id), NULL} :
    /\ lookups' = Settled(lookups, l)
    /\ UNCHANGED <<now, debouncedSearchQuery, isSearching, searches, searchCalls,
                   pureVars, probeError, plyrVars>>
    /\ IF ~l.live
       THEN \* the fetcher is gone: only the toast is seen
            /\ toast' = IF imdbId = NULL THEN ToastError("Could not find IMDB ID")
                        ELSE ToastSuccess("Loading")
            /\ UNCHANGED <<fetcherVars, playerVars, fetches, extractions, calls,
                           searchQuery, debounceTimers, searchResults, isLoadingMovie,
                           notice>>
       ELSE /\ isLoadingMovie' = FALSE
            /\ IF imdbId = NULL
               THEN /\ toast' = ToastError("Could not find IMDB ID")
                    /\ UNCHANGED <<searchQuery, debounceTimers, searchResults>>
               ELSE /\ searchQuery' = << >>
                    /\ debounceTimers' = DebounceEffect(<< >>)
                    /\ searchResults' = << >>
            /\ IF imdbId # NULL /\ MovieUrl(imdbId) # videoUrl
               THEN /\ UNCHANGED mounted
                    /\ SetVideoUrl(MovieUrl(imdbId), fetches, ToastSuccess("Loading"))
               ELSE /\ UNCHANGED <<fetcherVars, fetches>>
                    /\ imdbId # NULL => toast' = ToastSuccess("Loading")
                    /\ IF isLoadingMovie
                       THEN /\ MountPlayer(videoUrl, extractions)
                            /\ calls' = Counted(BagCardinality(extractions')
                                                - BagCardinality(extractions))
                       ELSE UNCHANGED <<playerVars, extractions, calls, notice>>

SearchNext ==
  \/ \E value \in Queries : SetSearchQuery(value)
  \/ DebounceTimerFires
  \/ \E s \in BagToSet(searches) : SearchDone(s)
  \/ \E i \in 1..Len(TmdbMovies) : SelectMovie(i)
  \/ \E l \in BagToSet(lookups) : ImdbIdDone(l)
  \/ Unmount

SearchSpec == Init /\ [][SearchNext]_vars

----------------------------------------------------------------------------
(* The pure functions of the player and of the video service, applied to   *)
(* argument strings with no component mounted: call is the pending call,   *)
(* ret the call that returned, with its value.                             *)

\* generateVideoUrlFromId(movieId)
GenerateVideoUrlFromId(movieId) ==
  Only({IF ~StartsWith(formattedId, <<"t","t">>) /\ IsNumeric(formattedId)
        THEN <<"h","t","t","p","s",":","/","/","j","o","l","e","3","4","0","e","r","u","n",".","c","o","m","/",
      "p","l","a","y","/">> \o (<<"t","t">> \o formattedId)
        ELSE <<"h","t","t","p","s",":","/","/","j","o","l","e","3","4","0","e","r","u","n",".","c","o","m","/",
      "p","l","a","y","/">> \o formattedId :
          formattedId \in {Trim(movieId)}})

\* the URL handleMovieIdSubmit hands to setVideoUrl for the contents movieId
\* of the field; NULL when it returns after "Please enter a movie ID"
SubmittedVideoUrl(movieId) ==
  IF IsBlank(movieId) THEN NULL ELSE MovieUrl(FormatMovieId(movieId))

\* URL arguments: a beginning followed by an ending
UrlBeginnings ==
  {<< >>, <<"h","t","t","p","s",":","/","/","c","d","n",".","e","x","a","m","p","l","e",".","o","r","g","/",
      "a">>, <<"h","t","t","p","s",":","/","/","c","d","n",".","e","x","a","m","p","l","e",".","o","r","g","/",
      "l","i","v","e","/","i","n","d","e","x">>,
   <<"n","o","t"," ","a"," ","u","r","l">>, <<"h","t","t","p","s",":","/","/","h",".","e","x","a","m","p","l","e",".","o","r","g","/","s","t",
      "r","e","a","m","/","x">>}

UrlEndings ==
  {<< >>, <<".","m","3","u","8">>, <<".","M","3","U","8">>, <<"/","s","t","r","e","a","m">>, <<"/","S","T","R","E","A","M">>, <<"/","s","t","r","e","a","m","/","x">>, <<".","m","p","4">>,
   <<".","M","P","4">>, <<".","M","p","4">>, <<".","w","e","b","m">>, <<".","o","g","g">>, <<".","m","o","v">>, <<".","m","p","3">>, <<".","m","p","4","?","x">>,
   <<".","m","3","u","8","?","t","=","1">>, <<".","m","o","v"," ">>}

UrlArgs == {b \o e : b \in UrlBeginnings, e \in UrlEndings}

\* movie ID arguments
MovieIdArgs ==
  {<< >>, <<" ">>, <<"2","7","9","9","5","5","9","4">>, <<"t","t","2","7","9","9","5","5","9","4">>, <<" ","2","7","9","9","5","5","9","4"," ">>, <<"1",".","5">>, <<"-","5">>,
   <<"t","t","a","b","c">>, <<"a","b","c">>, <<"t","t">>, <<"0">>, <<"t","t","0">>, <<" ","t","t","0">>, <<"x","1">>}

\* Date.now() answers 1..MaxTimestamp
MaxTimestamp == 2

\* what the promise of the fetcher's refreshVideoUrl settles with for
\* videoUrl = url, Date.now() answering timestamp in fetchNewVideoUrl
RefreshedUrl(url, timestamp) ==
  Only({IF sourceConfig = NullObject THEN REJECTED
        ELSE FetchNewVideoUrl(sourceConfig, timestamp) :
          sourceConfig \in {ParseVideoUrl(url)}})

\* the URLs a refresh is asked for: sources, and URLs a refresh returned
RefreshUrlArgs ==
  DefaultUrls
  \cup {<<"h","t","t","p","s",":","/","/","c","d","n",".","e","x","a","m","p","l","e",".","o","r","g","/",
      "l","i","v","e","/","i","n","d","e","x",".","m","3","u","8">>,
        <<"h","t","t","p","s",":","/","/","c","d","n",".","e","x","a","m","p","l","e",".","o","r","g","/",
      "a","/","b","/","v","i","d","e","o",".","m","p","4">>,
        <<"h","t","t","p","s",":","/","/","e","m","b","e","d",".","e","x","a","m","p","l","e",".","o","r",
      "g","/","e","m","b","e","d","/","a","b","c">>,
        <<"h","t","t","p","s",":","/","/","j","o","l","e","3","4","0","e","r","u","n",".","c","o","m","/",
      "p","l","a","y","/","t","t","2","7","9","9","5","5","9","4","?","r","e","f","r","e","s","h","=",
      "1">>,
        <<"h","t","t","p","s",":","/","/","c","d","n",".","e","x","a","m","p","l","e",".","o","r","g","/",
      "l","i","v","e","/","i","n","d","e","x",".","m","3","u","8","?","_","=","1">>,
        <<"h","t","t","p","s",":","/","/","i","-","c","d","n","-","0",".","j","o","l","e","3","4","0","e",
      "r","u","n",".","c","o","m","/","s","t","r","e","a","m","2","/","i","-","c","d","n","-","0","/",
      "x","/","t","t","2","7","9","9","5","5","9","4","/","i","n","d","e","x",".","m","3","u","8">>}

PureCalls ==
  [fn : {"isDirectVideoUrl", "parseVideoUrl"}, arg : UrlArgs]
  \cup [fn : {"generateVideoUrlFromId", "handleMovieIdSubmit"}, arg : MovieIdArgs]
  \cup [fn : {"refreshVideoUrl"}, arg : RefreshUrlArgs]

Returns(value) ==
  /\ ret = NoCall
  /\ ret' = [fn |-> call.fn, arg |-> call.arg, value |-> value]
  /\ UNCHANGED <<call, fetcherVars, playerVars, fetches, extractions, now, calls,
                 toast, searchVars, logVars, plyrVars>>

IsDirectVideoUrlReturns ==
  /\ call.fn = "isDirectVideoUrl"
  /\ Returns(IsDirectVideoUrl(call.arg))

ParseVideoUrlReturns ==
  /\ call.fn = "parseVideoUrl"
  /\ Returns(ParseVideoUrl(call.arg))

GenerateVideoUrlFromIdReturns ==
  /\ call.fn = "generateVideoUrlFromId"
  /\ Returns(GenerateVideoUrlFromId(call.arg))

HandleMovieIdSubmitReturns ==
  /\ call.fn = "handleMovieIdSubmit"
  /\ Returns(SubmittedVideoUrl(call.arg))

RefreshVideoUrlReturns ==
  /\ call.fn = "refreshVideoUrl"
  /\ \E timestamp \in 1..MaxTimestamp : Returns(RefreshedUrl(call.arg, timestamp))

\* no component is mounted
NothingMounted ==
  /\ ret = NoCall
  /\ notice = NoToast
  /\ probeError = NoError
  /\ NoPlyr
  /\ mounted = FALSE
  /\ videoUrl = << >>
  /\ expTimers = << >>
  /\ fetches = EmptyBag
  /\ toast = NoToast
  /\ calls = 0
  /\ videoSrc = << >>
  /\ isLoading = FALSE
  /\ hasError = FALSE
  /\ originalVideoUrl = NULL
  /\ useEmbedView = FALSE
  /\ embedUrl = << >>
  /\ refreshTimers = << >>
  /\ isExtracting = FALSE
  /\ extractions = EmptyBag
  /\ switchOffered = FALSE
  /\ now = 0
  /\ searchQuery = << >>
  /\ debouncedSearchQuery = << >>
  /\ debounceTimers = << >>
  /\ searchResults = << >>
  /\ isSearching = FALSE
  /\ searches = EmptyBag
  /\ isLoadingMovie = FALSE
  /\ lookups = EmptyBag
  /\ searchCalls = 0

\* no component is mounted; one call is pending
PureInit ==
  /\ call \in PureCalls
  /\ NothingMounted

PureNext ==
  \/ IsDirectVideoUrlReturns
  \/ ParseVideoUrlReturns
  \/ GenerateVideoUrlFromIdReturns
  \/ HandleMovieIdSubmitReturns
  \/ RefreshVideoUrlReturns

PureSpec == PureInit /\ [][PureNext]_vars

----------------------------------------------------------------------------
(* The expiration check with a probe that can fail.  isVideoUrlExpired as  *)
(* written resolves with a boolean; checkExpiration awaits it in a try     *)
(* block, for the probe a deployment puts in its place.  Here the probe of *)
(* a timer-driven check may also reject.                                   *)

\* a checkExpiration that treats a probe that rejected as an expired URL
ProbeFailsAsExpired ==
  \E i \in 1..Len(expTimers) :
    /\ probeError' = [message |-> "Error checking video URL expiration",
                      url |-> expTimers[i].url]
    /\ fetches' = CheckExpiration(expTimers[i].url, TRUE, fetches)
    /\ toast' = ExpirationToast(expTimers[i].url, TRUE, toast)
    /\ fetches' # fetches => calls < MaxCalls
    /\ calls' = Counted(BagCardinality(fetches') - BagCardinality(fetches))
    /\ UNCHANGED <<fetcherVars, playerVars, extractions, now, searchVars, pureVars, notice, plyrVars>>

\* an expiration-check timer fires and isVideoUrlExpired rejects:
\* checkExpiration goes to its catch block, which logs
ProbeFails ==
  \E i \in 1..Len(expTimers) :
    /\ probeError' = [message |-> "Error checking video URL expiration",
                      url |-> expTimers[i].url]
    /\ UNCHANGED <<fetcherVars, playerVars, fetches, extractions, now, calls,
                   toast, searchVars, pureVars, notice, plyrVars>>

ProbeNext ==
  \/ ProbeFails
  \/ ExpTimerTick
  \/ \E f \in BagToSet(fetches) : FetchDone(f)
  \/ \E movieId \in MovieIdInputs : HandleMovieIdSubmit(movieId)
  \/ ClickRefresh
  \/ HandleMediaError
  \/ Unmount

ProbeSpec == Init /\ [][ProbeNext]_vars


\* ---------------------------------------------------------------------------
\* PlyrPlayer (src/components/PlyrPlayer.tsx, the revision with the iframe mode)
\* ---------------------------------------------------------------------------

\* the most Hls instances a behaviour creates
MaxHls == 4

\* the most window messages waiting to be dispatched
MaxInbox == 1

\* src props the parent passes
PlyrSources ==
  {<<"i","f","r","a","m","e",":","/","/","e",".","o","r","g","/","p","?","p","l","a","y","e","r","I",
      "d","=","1">>,
   <<"h","t","t","p","s",":","/","/","c",".","o","r","g","/","a",".","m","3","u","8">>,
   <<"h","t","t","p","s",":","/","/","c",".","o","r","g","/","b",".","m","3","u","8">>,
   <<"h","t","t","p","s",":","/","/","c",".","o","r","g","/","v",".","m","p","4">>}

\* the data of the window messages posted to the page
Messages ==
  {[object |-> TRUE, type |-> "video-extracted", url |-> <<"h","t","t","p","s",":","/","/","c",".","o","r","g","/","x",".","m","p","4">>],
   [object |-> TRUE, type |-> "video-extracted", url |-> NULL],
   [object |-> TRUE, type |-> "video-extracted", url |-> << >>],
   [object |-> TRUE, type |-> "ready", url |-> <<"h","t","t","p","s",":","/","/","c",".","o","r","g","/","x",".","m","p","4">>],
   [object |-> FALSE, type |-> "video-extracted", url |-> <<"h","t","t","p","s",":","/","/","c",".","o","r","g","/","x",".","m","p","4">>]}

\* new Hls(...)
NewHls == [alive |-> TRUE, attached |-> FALSE]

\* instance.destroy() on the instance numbered i, nothing for null
Destroy(instances, i) ==
  IF i = 0 THEN instances
  ELSE [instances EXCEPT ![i] = [alive |-> FALSE, attached |-> FALSE]]

\* instance.attachMedia(element) on the instance numbered i
AttachMedia(instances, i) ==
  IF instances[i].alive THEN [instances EXCEPT ![i].attached = TRUE]
  ELSE instances

\* the <Plyr> element is rendered when the iframe is not
ShowsIframe(mode, frame) == mode = "iframe" /\ frame # NULL /\ frame # << >>

\* playerRef.current?.plyr
PlyrThere == plyrMounted /\ plyrSource # NULL

\* The effect of the dependencies [src, onError, hls]: the cleanup of the effect
\* that ran before, then the body with the props and state of the new render.
\* s is the src prop, h the hls state, frame the iframeSrc state of that render,
\* source what the Plyr element plays, instances the Hls instances.
EffectRun(s, h, frame, source, instances) ==
  LET cleaned == Destroy(instances, hlsInstance) IN
  IF StartsWith(s, <<"i","f","r","a","m","e",":","/","/">>)
    THEN LET iframeUrl == SubSeq(s, 10, Len(s)) IN
         [playerMode |-> "iframe",
          iframeSrc |-> iframeUrl,
          hlsInstances |-> cleaned,
          hlsInstance |-> 0,
          listening |-> FALSE,
          hlsTimers |-> hlsTimers,
          plyrSource |-> IF ShowsIframe("iframe", iframeUrl) THEN NULL
                         ELSE IF source = NULL THEN s ELSE source]
    ELSE IF Includes(s, <<".","m","3","u","8">>)
      THEN LET created == Append(Destroy(cleaned, h), NewHls) IN
           [playerMode |-> "direct",
            iframeSrc |-> frame,
            hlsInstances |-> created,
            hlsInstance |-> Len(created),
            listening |-> TRUE,
            hlsTimers |-> hlsTimers \cup {[instance |-> Len(created), attempt |-> 1]},
            plyrSource |-> IF s # plyrSrc \/ source = NULL THEN s ELSE source]
      ELSE [playerMode |-> "direct",
            iframeSrc |-> frame,
            hlsInstances |-> cleaned,
            hlsInstance |-> 0,
            listening |-> TRUE,
            hlsTimers |-> hlsTimers,
            plyrSource |-> s]

\* the state after the effect ran
Commit(r) ==
  /\ playerMode' = r.playerMode
  /\ iframeSrc' = r.iframeSrc
  /\ hlsInstances' = r.hlsInstances
  /\ hlsInstance' = r.hlsInstance
  /\ listening' = r.listening
  /\ hlsTimers' = r.hlsTimers
  /\ plyrSource' = r.plyrSource

\* the effect creates an instance only for an .m3u8 source
CreatesHls(s) == ~StartsWith(s, <<"i","f","r","a","m","e",":","/","/">>) /\ Includes(s, <<".","m","3","u","8">>)

otherVars == <<fetcherVars, playerVars, fetches, extractions, now, calls, toast,
               searchVars, pureVars, logVars>>

\* <PlyrPlayer src={newSrc}/> is mounted: the first render shows the Plyr element
\* with the src prop, then the effect runs
PlyrMount(newSrc) ==
  /\ ~plyrMounted
  /\ hlsInstances = << >>
  /\ plyrMounted' = TRUE
  /\ plyrSrc' = newSrc
  /\ hls' = 0
  /\ Commit(EffectRun(newSrc, 0, NULL, newSrc, hlsInstances))
  /\ UNCHANGED <<inbox, otherVars>>

\* the parent renders the player with another src
PlyrSetSrc(newSrc) ==
  /\ plyrMounted
  /\ newSrc # plyrSrc
  /\ CreatesHls(newSrc) => Len(hlsInstances) < MaxHls
  /\ plyrSrc' = newSrc
  /\ Commit(EffectRun(newSrc, hls, iframeSrc, plyrSource, hlsInstances))
  /\ UNCHANGED <<plyrMounted, hls, inbox, otherVars>>

\* setHls(instance) in a timer callback: a render with the new state, whose hls
\* dependency makes the effect run again
SetHls(instance, instances, timers) ==
  IF plyrMounted /\ hls # instance
    THEN /\ CreatesHls(plyrSrc) => Len(hlsInstances) < MaxHls
         /\ hls' = instance
         /\ Commit([EffectRun(plyrSrc, instance, iframeSrc, plyrSource, instances)
                      EXCEPT !.hlsTimers = (@ \ hlsTimers) \cup timers])
    ELSE /\ hlsInstances' = instances
         /\ hlsTimers' = timers
         /\ UNCHANGED <<hls, playerMode, iframeSrc, hlsInstance, listening, plyrSource>>

\* a setTimeout callback of initializeHls runs: the first attempt after 200 ms,
\* the second 500 ms after a first attempt that found no video element
HlsTimerFires(t) ==
  /\ t \in hlsTimers
  /\ \E found \in BOOLEAN :
       LET rest == hlsTimers \ {t} IN
       IF t.attempt = 1 /\ ~PlyrThere
         THEN /\ hlsTimers' = rest
              /\ UNCHANGED <<hls, playerMode, iframeSrc, hlsInstances, hlsInstance,
                             listening, plyrSource>>
         ELSE IF found /\ PlyrThere
           THEN SetHls(t.instance, AttachMedia(hlsInstances, t.instance), rest)
           ELSE /\ hlsTimers' = IF t.attempt = 1
                                  THEN rest \cup {[instance |-> t.instance, attempt |-> 2]}
                                  ELSE rest
                /\ UNCHANGED <<hls, playerMode, iframeSrc, hlsInstances, hlsInstance,
                               listening, plyrSource>>
  /\ UNCHANGED <<plyrMounted, plyrSrc, inbox, otherVars>>

\* a frame or any other window posts a message to the page
PostMessage(data) ==
  /\ plyrMounted
  /\ Len(inbox) < MaxInbox
  /\ inbox' = Append(inbox, data)
  /\ UNCHANGED <<plyrMounted, plyrSrc, hls, playerMode, iframeSrc, plyrSource,
                 hlsInstances, hlsInstance, listening, hlsTimers, otherVars>>

\* handleMessage accepts the data: a 'video-extracted' object with a string url
Extracted(data) ==
  /\ data.object
  /\ data.type = "video-extracted"
  /\ data.url # NULL
  /\ data.url # << >>

\* setVideoSrc(newSrc), with the render and the effect its state changes cause
SetVideoSrc(newSrc) ==
  LET destroyed == Destroy(hlsInstances, hls) IN
  IF hls # 0
    THEN /\ CreatesHls(plyrSrc) => Len(hlsInstances) < MaxHls
         /\ hls' = 0
         /\ Commit(EffectRun(plyrSrc, 0, NULL,
                             IF PlyrThere THEN newSrc ELSE plyrSource, destroyed))
    ELSE /\ playerMode' = "direct"
         /\ iframeSrc' = NULL
         /\ plyrSource' = IF PlyrThere THEN newSrc
                          ELSE IF plyrMounted THEN plyrSrc ELSE plyrSource
         /\ UNCHANGED <<hls, hlsInstances, hlsInstance, listening, hlsTimers>>

\* the window dispatches the message to the listeners registered on it
DispatchMessage ==
  /\ inbox # << >>
  /\ inbox' = Tail(inbox)
  /\ IF listening /\ Extracted(Head(inbox))
       THEN SetVideoSrc(Head(inbox).url)
       ELSE UNCHANGED <<hls, playerMode, iframeSrc, plyrSource, hlsInstances,
                        hlsInstance, listening, hlsTimers>>
  /\ UNCHANGED <<plyrMounted, plyrSrc, otherVars>>

\* the player is unmounted: the cleanup of the effect runs
PlyrUnmount ==
  /\ plyrMounted
  /\ plyrMounted' = FALSE
  /\ hlsInstances' = Destroy(hlsInstances, hlsInstance)
  /\ hlsInstance' = 0
  /\ listening' = FALSE
  /\ plyrSource' = NULL
  /\ UNCHANGED <<plyrSrc, hls, playerMode, iframeSrc, hlsTimers, inbox, otherVars>>

PlyrInit ==
  /\ call = NoCall
  /\ NothingMounted

PlyrNext ==
  \/ \E newSrc \in PlyrSources : PlyrMount(newSrc)
  \/ \E newSrc \in PlyrSources : PlyrSetSrc(newSrc)
  \/ \E t \in hlsTimers : HlsTimerFires(t)
  \/ \E data \in Messages : PostMessage(data)
  \/ DispatchMessage
  \/ PlyrUnmount

PlyrSpec == PlyrInit /\ [][PlyrNext]_vars
----------------------------------------------------------------------------
(* Properties of the playback session.  The session is the mounted         *)
(* VideoFetcher with the VideoPlayer it renders; its teardown is Unmount.  *)

\* C1, as claimed: whenever the resolver rejects a refresh of the session,
\* started by the player (button, Try Again, refresh timer) or by the
\* expiration check, the current source is the one before the refresh,
\* isLoading is false and the session is in Error.
C1_FailedRefreshEntersError ==
  [][\A f \in BagToSet(fetches) :
       (/\ mounted
        /\ f.live \/ f.by = "expiry"
        /\ FetchNewVideoUrl(f.cfg, now + 1) = REJECTED
        /\ FetchDone(f))
       => (videoSrc' = videoSrc /\ ~isLoading' /\ hasError')]_vars

\* C2, as claimed, for the calls the player started alone: at most one
\* fetchNewVideoUrl call the player of the session awaits is in flight in
\* every reachable state.
C2_OneRefreshInFlight ==
  LiveCount(fetches) <= 1

C4_OneExtractionInFlight ==
  LiveCount(extractions) <= 1

\* the automatic extraction of an embed page of another host has ended
\* without a result and the clock has moved on: the session awaits the
\* extraction an extract button started
C4_Witness ==
  /\ mounted
  /\ isExtracting
  /\ LiveCount(extractions) = 1
  /\ originalVideoUrl = NULL
  /\ videoUrl = <<"h","t","t","p","s",":","/","/","e","m","b","e","d",".","e","x","a","m","p","l","e",".","o","r",
      "g">>
  /\ \E e \in Live(extractions) : e.url = videoSrc
  /\ now > 0
  /\ fetches = EmptyBag
  /\ calls = MaxCalls

\* C5: after teardown no timer is pending, no call of the service starts,
\* and a call that was in flight at teardown changes nothing when its
\* timeout fires but the set of calls in flight and the clock.
C5_NothingAfterTeardown ==
  /\ [](~mounted => expTimers = << >> /\ refreshTimers = << >>)
  /\ [][~mounted =>
          /\ fetches' \sqsubseteq fetches
          /\ extractions' \sqsubseteq extractions
          /\ UNCHANGED <<mounted, videoUrl, expTimers, videoSrc, isLoading,
                         hasError, isExtracting, originalVideoUrl, useEmbedView,
                         embedUrl, refreshTimers, switchOffered, calls>>]_vars

\* the session was torn down while a refresh and an extraction were in flight
C5_Witness ==
  /\ ~mounted
  /\ fetches # EmptyBag
  /\ extractions # EmptyBag

\* C6: a live session has exactly one refresh timer and one expiration
\* timer armed, each made for the source that governs it now: the refresh
\* timer for the current videoSrc and videoUrl, the expiration timer for
\* the current videoUrl.
C6_OneTimerPerSource ==
  mounted =>
    /\ Len(refreshTimers) <= 1
    /\ Len(expTimers) <= 1
    /\ \A i \in 1..Len(refreshTimers) :
         refreshTimers[i] = [src |-> videoSrc, url |-> videoUrl]
    /\ \A i \in 1..Len(expTimers) : expTimers[i] = [url |-> videoUrl]

\* the governing sources have both changed since the session started: a
\* refresh installed a new videoUrl and an extraction a new videoSrc
C6_Witness ==
  /\ mounted
  /\ videoUrl \notin DefaultUrls
  /\ videoSrc # videoUrl
  /\ Len(refreshTimers) = 1
  /\ Len(expTimers) = 1

\* C7, as claimed: isExtracting and isLoading are never both true.
C7_ExtractingExcludesLoading ==
  ~(isExtracting /\ isLoading)

\* C8: the error view is rendered whenever hasError is true; otherwise the
\* video element is rendered only for a source isDirectVideoUrl accepts,
\* and the iframe is rendered whenever the video element is not.
C8_RenderModeRule ==
  mounted =>
    /\ hasError => View = "error"
    /\ ~hasError /\ View = "direct" => IsDirectVideoUrl(videoSrc)
    /\ ~hasError /\ View # "direct" => View = "embed"
    /\ ~hasError /\ ~IsDirectVideoUrl(videoSrc) => View = "embed"

\* the session is in Error while its source is direct and the embed view
\* is forced
C8_Witness ==
  /\ mounted
  /\ hasError
  /\ useEmbedView
  /\ embedUrl # << >>
  /\ IsDirectVideoUrl(videoSrc)

\* C9, as claimed: while the embed view is forced and the session is not in
\* Error the iframe is rendered, and a step that changes the current source
\* ends with no view forced.
C9_ForcedViewDecidesMode ==
  /\ []((mounted /\ useEmbedView /\ ~hasError) => View = "embed")
  /\ [][(mounted' /\ videoSrc' # videoSrc) => ~useEmbedView']_vars

C11_SubmitInstallsSource ==
  [][\A movieId \in MovieIdInputs :
       HandleMovieIdSubmit(movieId) =>
         IF IsBlank(movieId)
         THEN /\ UNCHANGED <<videoUrl, videoSrc, isLoading, hasError, isExtracting,
                             expTimers, refreshTimers, fetches, extractions>>
              /\ View' = View
              /\ toast' = ToastError("Please enter a movie ID")
         ELSE /\ videoUrl' = MovieUrl(FormatMovieId(movieId))
              /\ videoSrc' = videoUrl'
              /\ ~isLoading'
              /\ ~hasError'
              /\ LiveCount(fetches') = 0]_vars

\* C12: every searchMovies call in flight carries a query of two characters
\* or more; a call is dispatched only by a step that changes the debounced
\* query, for the new debounced query; and a step that changes the debounced
\* query to one of length 0 or 1 dispatches no call and clears the result list.
C12_ShortQueriesNeverCallOut ==
  /\ [](\A s \in BagToSet(searches) : Len(s.query) >= 2)
  /\ [][(mounted' /\ BagCardinality(searches') > BagCardinality(searches)) =>
          /\ debouncedSearchQuery' # debouncedSearchQuery
          /\ searches' = Started(searches, [query |-> debouncedSearchQuery',
                                            live |-> TRUE])]_vars
  /\ [][(mounted' /\ debouncedSearchQuery' # debouncedSearchQuery
                  /\ Len(debouncedSearchQuery') < 2) =>
          /\ searches' = searches
          /\ searchCalls' = searchCalls
          /\ searchResults' = << >>]_vars

\* the results of a search were on screen when the debounced query became
\* "b": the list is empty and no call is in flight
C12_Witness ==
  /\ mounted
  /\ debouncedSearchQuery = <<"b">>
  /\ searchCalls = 1
  /\ searches = EmptyBag
  /\ searchResults = << >>
  /\ ~isSearching

\* C13, as claimed, for values a search is made for: at most one debounce
\* timer is pending, and whenever the timer fires, the quiet period after
\* the last key having passed, with a field of two characters or more,
\* one search is dispatched and it carries the value of the field.
C13_OneSearchPerBurst ==
  /\ [](mounted => Len(debounceTimers) <= 1)
  /\ [][(mounted /\ DebounceTimerFires /\ Len(searchQuery) >= 2) =>
          searches' = Started(searches, [query |-> searchQuery, live |-> TRUE])]_vars

\* C13, amended: at most one debounce timer is pending and it carries the
\* value of the field; every key cancels the pending timer and arms one for
\* the new value; when the timer fires none is left, and one search is
\* dispatched, for the value of the field, if that value has two characters
\* or more and is not the debounced value already, and none otherwise; no
\* other step dispatches a search.
C13_TrailingValueSearched ==
  /\ [](mounted => /\ Len(debounceTimers) <= 1
                   /\ \A i \in 1..Len(debounceTimers) :
                        debounceTimers[i].value = searchQuery)
  /\ [][\A value \in Queries :
          SetSearchQuery(value) => debounceTimers' = <<[value |-> value]>>]_vars
  /\ [][(mounted /\ DebounceTimerFires) =>
          /\ debounceTimers' = << >>
          /\ IF Len(searchQuery) >= 2 /\ searchQuery # debouncedSearchQuery
             THEN searches' = Started(searches, [query |-> searchQuery, live |-> TRUE])
             ELSE searches' = searches]_vars
  /\ [][(mounted' /\ BagCardinality(searches') > BagCardinality(searches)) =>
          DebounceTimerFires]_vars

\* the quiet period after the last key has passed: the one search
\* dispatched so far is in flight and carries the value of the field
C13_Witness ==
  /\ mounted
  /\ searchQuery = <<"b","a","t">>
  /\ debouncedSearchQuery = <<"b","a","t">>
  /\ debounceTimers = << >>
  /\ searchCalls = 1
  /\ searches = SetToBag({[query |-> <<"b","a","t">>, live |-> TRUE]})

\* C14, as claimed: when the last search in flight settles and the debounced
\* query has moved on since it was issued, to a newer query or to one too
\* short to search, its results are discarded: the result list stays as
\* the newer query left it.
C14_StaleResultsDiscarded ==
  [][\A s \in Live(searches) :
       (/\ SearchDone(s)
        /\ searches' = EmptyBag
        /\ s.query # debouncedSearchQuery) =>
         searchResults' = searchResults]_vars

\* C15, as claimed: when a search call fails, the failure toast is shown,
\* the result list is empty, isSearching is false and the source of the
\* fetcher and of the player is the one before.
C15_FailedSearchClearsResults ==
  [][\A s \in Live(searches) :
       (/\ SearchDone(s)
        /\ toast # ToastError("Failed to search movies")
        /\ toast' = ToastError("Failed to search movies")) =>
         /\ searchResults' = << >>
         /\ ~isSearching'
         /\ videoUrl' = videoUrl
         /\ videoSrc' = videoSrc]_vars


\* C16: isDirectVideoUrl(url) is true exactly when url ends with ".m3u8"
\* (as written, in lower case), or contains "/stream" anywhere, or ends with
\* .mp4, .webm, .ogg or .mov in any letter case; it returns a boolean for
\* every string, unparsable ones included.  The isDirectVideo field of
\* parseVideoUrl is the same predicate of the URL it was given.
C16_DirectUrlClassifier ==
  ret # NoCall =>
    LET url == ret.arg
        n == Len(url)
        endsWithM3u8 == /\ n >= 5
                        /\ \A j \in 1..5 : url[n - 5 + j] = <<".","m","3","u","8">>[j]
        containsStream == \E i \in 1..(n - 6) :
                            \A j \in 1..7 : url[i + j - 1] = <<"/","s","t","r","e","a","m">>[j]
        endsWithExtension ==
          \E ext \in {<<".","m","p","4">>, <<".","w","e","b","m">>, <<".","o","g","g">>, <<".","m","o","v">>} :
            /\ Len(ext) <= n
            /\ \A j \in 1..Len(ext) : LowerChar(url[n - Len(ext) + j]) = ext[j]
        direct == endsWithM3u8 \/ containsStream \/ endsWithExtension
    IN  /\ ret.fn = "isDirectVideoUrl" => ret.value \in BOOLEAN /\ ret.value = direct
        /\ (ret.fn = "parseVideoUrl" /\ ret.value # NullObject) =>
             ret.value.isDirectVideo = direct

\* C16 witness: an upper-case extension on an unparsable string was
\* classified as direct
C16_Witness ==
  /\ ret # NoCall
  /\ ret.fn = "isDirectVideoUrl"
  /\ ret.arg = <<"n","o","t"," ","a"," ","u","r","l",".","M","P","4">>
  /\ ret.value = TRUE

\* C17: isDirectVideoUrl(url) is true exactly when url ends in ".m3u8", in
\* "/stream" or in .mp4, .webm, .ogg or .mov, each written in any letter
\* case, and false for every URL with none of these endings.
C17_EndingDecides ==
  (ret # NoCall /\ ret.fn = "isDirectVideoUrl") =>
    ret.value = (\E ending \in {<<".","m","3","u","8">>, <<"/","s","t","r","e","a","m">>, <<".","m","p","4">>, <<".","w","e","b","m">>, <<".","o","g","g">>, <<".","m","o","v">>} :
                   EndsWith(ToLowerCase(ret.arg), ending))

\* C18: generateVideoUrlFromId maps a digit string d and "tt" followed by d
\* to the same URL, the embed base path followed by "tt" and d; an input
\* that is neither a digit string nor prefixed with "tt" is put in the URL
\* unchanged; whenever the input was a digit string or prefixed, the
\* identifier in the URL is "tt" followed by one or more digits; and the
\* movie ID form builds the same URL from the same input.
C18_IdNormalization ==
  ret # NoCall =>
    LET id == ret.arg
        base == <<"h","t","t","p","s",":","/","/","j","o","l","e","3","4","0","e","r","u","n",".","c","o","m","/",
      "p","l","a","y","/">>
        IsDigits(s) == s # << >> /\ Chars(s) \subseteq DigitSet
        numeric == IsDigits(id)
        prefixed == StartsWith(id, <<"t","t">>)
    IN  /\ ret.fn = "generateVideoUrlFromId" =>
             /\ numeric => ret.value = base \o <<"t","t">> \o id
             /\ (prefixed /\ IsDigits(SubSeq(id, 3, Len(id)))) => ret.value = base \o id
             /\ (~numeric /\ ~prefixed) => ret.value = base \o id
             /\ (numeric \/ prefixed) =>
                  \E k \in 1..Len(ret.value) :
                    /\ SubSeq(ret.value, 1, k) = base \o <<"t","t">>
                    /\ IsDigits(SubSeq(ret.value, k + 1, Len(ret.value)))
        /\ (ret.fn = "handleMovieIdSubmit" /\ ret.value # NULL) =>
             ret.value = GenerateVideoUrlFromId(id)

\* C19: parseVideoUrl returns null for a string that is no parsable URL
\* ("not a url" among them) and a configuration for every other one.  A
\* caller that gets null ends its operation as a failure: a refresh of an
\* unparsable videoUrl leaves the player in its error view, not loading,
\* with the error toast, its source untouched and no fetchNewVideoUrl call
\* started; no call of fetchNewVideoUrl or of the extraction timeout is ever
\* in flight for an unparsable URL; and a player on an unparsable source is
\* never left extracting and never holds a null or extracted source.
C19_NullEndsTheOperation ==
  /\ ParseVideoUrl(<<"n","o","t"," ","a"," ","u","r","l">>) = NullObject
  /\ [](mounted => (ParseVideoUrl(videoUrl) = NullObject <=> ParseUrl(videoUrl) = NullObject))
  /\ [](\A f \in BagToSet(fetches) : f.cfg # NullObject)
  /\ [](\A e \in BagToSet(extractions) : ParseVideoUrl(e.url) # NullObject)
  /\ [](mounted =>
          /\ videoSrc # NULL
          /\ ParseVideoUrl(videoSrc) = NullObject =>
               ~isExtracting /\ originalVideoUrl = NULL)
  /\ [][(/\ mounted
         /\ ParseVideoUrl(videoUrl) = NullObject
         /\ (ClickRefresh \/ TryAgain)) =>
           /\ hasError'
           /\ ~isLoading'
           /\ toast' = ToastError("Failed to refresh video URL")
           /\ UNCHANGED <<videoUrl, videoSrc, fetches, calls>>]_vars

\* C19 witness: the refresh of an unparsable URL has failed
C19_Witness ==
  /\ mounted
  /\ videoUrl = <<"n","o","t"," ","a"," ","u","r","l">>
  /\ videoSrc = <<"n","o","t"," ","a"," ","u","r","l">>
  /\ hasError
  /\ ~isLoading
  /\ ~isExtracting
  /\ toast = ToastError("Failed to refresh video URL")
  /\ fetches = EmptyBag
  /\ extractions = EmptyBag

\* C20: fetchNewVideoUrl fails for a configuration with an empty baseUrl or
\* an empty videoId before anything is awaited: no call with such a
\* configuration is ever in flight, waiting for the simulated network delay.
C20_ValidationBeforeDelay ==
  \A f \in BagToSet(fetches) :
    f.cfg.baseUrl # << >> /\ f.cfg.videoId # << >>

\* C21: a refresh that succeeds returns a URL that parses back to the
\* baseUrl and videoId of the URL it was asked for, and that carries exactly
\* one marker: "?_=" for a direct video, "?refresh=" for an embed URL.
C21_RefreshKeepsResource ==
  (ret # NoCall /\ ret.fn = "refreshVideoUrl" /\ ret.value # REJECTED) =>
    LET old == ParseVideoUrl(ret.arg)
        new == ParseVideoUrl(ret.value)
        marker == IF old.isDirectVideo THEN <<"?","_","=">> ELSE <<"?","r","e","f","r","e","s","h","=">>
    IN  /\ new # NullObject
        /\ new.baseUrl = old.baseUrl
        /\ new.videoId = old.videoId
        /\ Cardinality(Matches(ret.value, marker)) = 1

\* C22: a step in which checkExpiration logs a failure of the probe starts
\* no refresh, shows no toast and changes nothing of the session: the
\* fetcher, the player and the calls in flight are as they were.
C22_ProbeFailureIsSilent ==
  [][probeError' # probeError =>
       UNCHANGED <<fetcherVars, playerVars, fetches, extractions, calls, toast, now>>]_vars

\* C22 witness: a probe has failed on a session that plays, with nothing in
\* flight and no toast
C22_Witness ==
  /\ probeError # NoError
  /\ mounted
  /\ probeError.url = videoUrl
  /\ fetches = EmptyBag
  /\ toast = NoToast
  /\ ~isLoading
  /\ ~hasError

\* C23: when the timeout of an extraction fires with null for a player that
\* awaits it, the source, the render mode, the error flag and the direct-URL
\* field are as they were, isExtracting is false again, and the toast that
\* is shown is an informational one.
C23_InconclusiveExtractionIsInformational ==
  [][\A e \in Live(extractions) :
       (ExtractDone(e) /\ ExtractOriginalVideoUrl(e.url, now + 1) = NULL) =>
         /\ UNCHANGED <<videoUrl, videoSrc, useEmbedView, embedUrl, hasError,
                        isLoading, originalVideoUrl, refreshTimers>>
         /\ View' = View
         /\ ~isExtracting'
         /\ notice'.level = "info"]_vars

\* C24: a player mounted on a direct source renders the video element and
\* starts no extraction, and none is started for it later; a player mounted
\* on an embed source renders the iframe and the automatic extraction is
\* called once at the mount: the call is in flight, or has answered null at
\* once for a source that does not parse.  Every later extraction call of
\* that player comes from the Extract buttons.
C24_AutomaticExtractionOncePerSource ==
  /\ (IF IsDirectVideoUrl(videoUrl)
      THEN View = "direct" /\ extractions = EmptyBag /\ ~isExtracting
      ELSE /\ View = "embed"
           /\ IF ParseVideoUrl(videoUrl) # NullObject
              THEN extractions = SetToBag({[url |-> videoUrl, live |-> TRUE]}) /\ isExtracting
              ELSE /\ extractions = EmptyBag
                   /\ notice = ToastError("Could not extract original video URL"))
  /\ [][(mounted' /\ videoUrl' # videoUrl) =>
          IF IsDirectVideoUrl(videoUrl')
          THEN View' = "direct" /\ Live(extractions') = {} /\ ~isExtracting'
          ELSE /\ View' = "embed"
               /\ Live(extractions') = {[url |-> videoUrl', live |-> TRUE]}
               /\ CopiesIn([url |-> videoUrl', live |-> TRUE], extractions') = 1
               /\ isExtracting']_vars
  /\ [][(/\ mounted'
         /\ videoUrl' = videoUrl
         /\ LiveCount(extractions') > LiveCount(extractions)) => ClickExtract]_vars
  /\ [](mounted /\ IsDirectVideoUrl(videoUrl) => Live(extractions) = {} /\ ~isExtracting)

\* C24 witness: the automatic extraction of an embed source has answered
\* null and no other one was started
C24_Witness ==
  /\ mounted
  /\ videoUrl = <<"h","t","t","p","s",":","/","/","e","m","b","e","d",".","e","x","a","m","p","l","e",".","o","r",
      "g">>
  /\ videoSrc = videoUrl
  /\ View = "embed"
  /\ notice = ToastError("Could not extract original video URL")
  /\ ~isExtracting
  /\ extractions = EmptyBag
  /\ calls = 1

\* C25: while the source is the URL of the movie the user submitted or
\* selected, the completion of a refresh that was started for another
\* source leaves it in place: videoUrl and the movie it identifies are the
\* same after the step.
C25_StaleRefreshKeepsChoice ==
  [][\A f \in BagToSet(fetches) :
       (/\ mounted
        /\ FetchDone(f)
        /\ \E id \in MovieIdInputs \cup SearchIds :
             ~IsBlank(id) /\ videoUrl = MovieUrl(FormatMovieId(id))
        /\ f.cfg # ParseVideoUrl(videoUrl)) =>
         /\ videoUrl' = videoUrl
         /\ ExtractMovieIdFromUrl(videoUrl') = ExtractMovieIdFromUrl(videoUrl)]_vars

\* C26: the completion of a refresh that the expiration check started runs
\* no expiration probe that starts another refresh: after the step one
\* expiration-triggered fetchNewVideoUrl call less is in flight, and no
\* expiration warning is shown by it.
C26_ExpirationRefreshDoesNotCascade ==
  [][\A f \in BagToSet(fetches) :
       (mounted /\ f.by = "expiry" /\ FetchDone(f)) =>
         LET ByExpiry(B) ==
               BagCardinality([t \in {x \in BagToSet(B) : x.by = "expiry"} |->
                                 CopiesIn(t, B)])
         IN  /\ ByExpiry(fetches') = ByExpiry(fetches) - 1
             /\ toast' # ToastWarning("Video URL has expired, refreshing...")
                  \/ toast' = toast]_vars

\* C27: the URL a successful refresh returns is classified as the URL it
\* was asked for: direct if that one was direct, embed if it was embed.
C27_RefreshKeepsClassification ==
  (ret # NoCall /\ ret.fn = "refreshVideoUrl" /\ ret.value # REJECTED) =>
    IsDirectVideoUrl(ret.value) = IsDirectVideoUrl(ret.arg)


\* C28: for a supported .m3u8 source whose video element is found, once the
\* player holds an attached Hls instance in its state it creates and destroys no
\* instance until src changes or the player is unmounted, and that instance is
\* the one instance alive and attached; after the unmount every instance created
\* has been destroyed.
C28_HlsInitialisationSettles ==
  /\ [][(plyrMounted /\ plyrMounted' /\ plyrSrc' = plyrSrc /\ CreatesHls(plyrSrc)
          /\ hls # 0 /\ hlsTimers' # hlsTimers)
         => /\ Len(hlsInstances') = Len(hlsInstances)
            /\ \A i \in 1..Len(hlsInstances) :
                 hlsInstances'[i].alive = hlsInstances[i].alive]_vars
  /\ []((plyrMounted /\ CreatesHls(plyrSrc) /\ hls # 0 /\ hls = hlsInstance)
         => {i \in 1..Len(hlsInstances) :
               hlsInstances[i].alive /\ hlsInstances[i].attached} = {hls})
  /\ [](~plyrMounted => \A i \in 1..Len(hlsInstances) : ~hlsInstances[i].alive)

\* C29: in iframe mode with an 'iframe://' source, a dispatched 'video-extracted'
\* message with a string url puts the player in direct mode playing that url, and
\* a message of any other shape leaves the mode and the source as they are.
C29_ExtractedMessageSwitchesToDirect ==
  [][(plyrMounted /\ StartsWith(plyrSrc, <<"i","f","r","a","m","e",":","/","/">>) /\ playerMode = "iframe"
       /\ inbox # << >> /\ inbox' = Tail(inbox))
      => IF Extracted(Head(inbox))
           THEN playerMode' = "direct" /\ plyrSource' = Head(inbox).url
           ELSE playerMode' = playerMode /\ iframeSrc' = iframeSrc
                /\ plyrSource' = plyrSource]_vars

\* C30: in every state of a mounted player, a forced embed view outside Error
\* renders the iframe, and the toggle control is offered only with a non-empty
\* embed URL, for every initial source.
C30_ToggleOfferedHasEmbedUrl ==
  mounted =>
    /\ (useEmbedView /\ ~hasError) => View = "embed"
    /\ (IsDirectVideoUrl(videoSrc) \/ embedUrl # << >>) => embedUrl # << >>
====
